---- MODULE Spec2Model ----
(***************************************************************************)
(* A model of the segmented commit log of package log: Store (store.go),   *)
(* Index (the newIndex variant that segment.go constructs), segment        *)
(* (segment.go) and Log (log.go), down to the bytes of the store and index *)
(* files, and of the gRPC Consume handler that reads from it. Further      *)
(* specifications run a Store on its own, an Index on its own through the  *)
(* calls of its Close, goroutines that call one Log at the same time, and  *)
(* the server's ConsumeStream handler next to Produce.                     *)
(***************************************************************************)
EXTENDS Integers, Sequences, FiniteSets, TLC

\* ------------------------------------------------------------- bounds
\* Append calls per behaviour.
MaxAppends == 3
\* Goroutines that call the log at the same time.
NumThreads == 2
\* Length of a record value, in bytes.
MaxValueLen == 1

\* ---------------------------------------------------------- constants
lenWidth == 8
offWidth == 4
posWidth == 8
entWidth == offWidth + posWidth
\* The length NewIndex of part_007 gives an empty index file.
initialSize == 1024
\* NewLog's defaults for a zero MaxStoreBytes / MaxIndexBytes.
DefaultMaxStoreBytes == 1024
DefaultMaxIndexBytes == 1024

\* The configurations NewLog is called with: an index-bound rollover (two
\* entries per segment) under the default store size, one entry per segment,
\* a store-bound rollover from a non-zero InitialOffset (one record with a
\* value, or two without, fill a segment), and an index size that is no
\* multiple of entWidth.
Configs ==
  { [MaxStoreBytes |-> 0,    MaxIndexBytes |-> 24, InitialOffset |-> 0],
    [MaxStoreBytes |-> 1000, MaxIndexBytes |-> 12, InitialOffset |-> 1],
    [MaxStoreBytes |-> 13,   MaxIndexBytes |-> 48, InitialOffset |-> 2],
    [MaxStoreBytes |-> 1000, MaxIndexBytes |-> 30, InitialOffset |-> 0] }

\* Record values: the byte strings <<1, ..., n>> for n <= MaxValueLen.
Values == {[i \in 1 .. n |-> i] : n \in 0 .. MaxValueLen}

\* Offsets a caller reads or truncates at under Config c: from just below
\* InitialOffset to the offset after the last Append's.
Offsets(c) ==
  (IF c.InitialOffset = 0 THEN 0 ELSE c.InitialOffset - 1) .. (c.InitialOffset + MaxAppends)

\* ------------------------------------------------------------- bytes
\* encoding/binary BigEndian.PutUint32 / PutUint64: the w low-order bytes
\* of n, most significant first.
RECURSIVE PutUint(_, _)
PutUint(n, w) == IF w = 0 THEN <<>> ELSE PutUint(n \div 256, w - 1) \o <<n % 256>>

\* encoding/binary BigEndian.Uint32 / Uint64.
RECURSIVE Uint(_)
Uint(b) == IF b = <<>> THEN 0 ELSE Uint(SubSeq(b, 1, Len(b) - 1)) * 256 + b[Len(b)]

\* The conversion uint32(n): the four low-order bytes of n.
ToUint32(n) == Uint(PutUint(n, 4))

\* A 64-bit integer beyond the range of one model integer is kept in two
\* parts, hi * 2^16 + lo with 0 <= lo < 2^16 (hi below 0 for a negative
\* int64).
Wide(n) == [hi |-> n \div 65536, lo |-> n % 65536]

\* w * k + a, for small k and a.
WideScale(w, k, a) ==
  [hi |-> w.hi * k + (w.lo * k + a) \div 65536, lo |-> (w.lo * k + a) % 65536]

WideLess(a, b) == a.hi < b.hi \/ (a.hi = b.hi /\ a.lo < b.lo)

\* The conversion uint32(w): the 32 low-order bits of w.
WideUint32(w) == [hi |-> w.hi % 65536, lo |-> w.lo]

RECURSIVE Zeros(_)
Zeros(n) == IF n <= 0 THEN <<>> ELSE <<0>> \o Zeros(n - 1)

\* b with bytes [at+1 .. at+Len(p)] (1-based) overwritten by p.
Overwrite(b, at, p) ==
  [i \in 1 .. Len(b) |-> IF i > at /\ i <= at + Len(p) THEN p[i - at] ELSE b[i]]

\* ------------------------------------------- api.Record wire format
\* protobuf base-128 varint.
RECURSIVE Varint(_)
Varint(n) == IF n < 128 THEN <<n>> ELSE <<128 + (n % 128)>> \o Varint(n \div 128)

\* A continuation byte first in front of the decoded rest r.
DecodeVarintMore(first, r) ==
  [ok |-> r.ok, val |-> (first - 128) + 128 * r.val, n |-> r.n + 1]

RECURSIVE DecodeVarint(_)
DecodeVarint(b) ==
  IF b = <<>> THEN [ok |-> FALSE, val |-> 0, n |-> 0]
  ELSE IF b[1] < 128 THEN [ok |-> TRUE, val |-> b[1], n |-> 1]
  ELSE DecodeVarintMore(b[1], DecodeVarint(Tail(b)))

\* proto.Marshal of Record{value = 1 (bytes), offset = 2 (uint64)}: proto3
\* omits an empty value and a zero offset.
Marshal(rec) ==
  (IF Len(rec.value) > 0 THEN <<10>> \o Varint(Len(rec.value)) \o rec.value ELSE <<>>)
  \o (IF rec.offset # 0 THEN <<16>> \o Varint(rec.offset) ELSE <<>>)

\* proto.Unmarshal into a reset Record.
\* proto.Unmarshal's loop over the fields of b. UnmarshalField takes the
\* field's tag byte, the varint v after it and the bytes rest after that.
RECURSIVE UnmarshalInto(_, _)
UnmarshalField(tag, v, rest, rec) ==
  IF ~v.ok THEN [ok |-> FALSE, rec |-> rec]
  ELSE IF tag = 10 THEN
         IF Len(rest) < v.val THEN [ok |-> FALSE, rec |-> rec]
         ELSE UnmarshalInto(SubSeq(rest, v.val + 1, Len(rest)),
                            [rec EXCEPT !.value = SubSeq(rest, 1, v.val)])
  ELSE IF tag = 16 THEN UnmarshalInto(rest, [rec EXCEPT !.offset = v.val])
  ELSE [ok |-> FALSE, rec |-> rec]

UnmarshalVarint(b, v, rec) == UnmarshalField(b[1], v, SubSeq(b, 2 + v.n, Len(b)), rec)

UnmarshalInto(b, rec) ==
  IF b = <<>> THEN [ok |-> TRUE, rec |-> rec]
  ELSE UnmarshalVarint(b, DecodeVarint(Tail(b)), rec)

Unmarshal(b) == UnmarshalInto(b, [value |-> <<>>, offset |-> 0])

NoRecord == [value |-> <<>>, offset |-> 0]

\* ------------------------------------------------------------- Store
\* A Store object: size, the bufio.Writer's pending bytes (buf) and sticky
\* error (err), and whether its *os.File has been closed. The file's bytes
\* live in the directory under the store's name.

\* newStore: size is the file's length, the buffer is empty.
newStore(f) == [size |-> Len(f), buf |-> <<>>, closed |-> FALSE, err |-> "nil"]

\* bufio.Writer.Flush: a sticky error is returned again; an empty buffer
\* needs no write; the write fails, and the error sticks, on a closed file.
Flush(st, f) ==
  IF st.err # "nil" THEN [st |-> st, f |-> f, err |-> st.err]
  ELSE IF st.buf = <<>> THEN [st |-> st, f |-> f, err |-> "nil"]
  ELSE IF st.closed THEN [st |-> [st EXCEPT !.err = "file already closed"],
                          f |-> f, err |-> "file already closed"]
  ELSE [st |-> [st EXCEPT !.buf = <<>>], f |-> f \o st.buf, err |-> "nil"]

\* A frame with a length prefix of four bytes.
FrameNarrow(value) == PutUint(Len(value), 4) \o value

\* bufio.Writer.Flush in its two steps, for callers that run it side by side:
\* the Write of the pending bytes to the file, which leaves them pending,
FlushWrite(st, f) ==
  IF st.err # "nil" THEN [st |-> st, f |-> f, err |-> st.err]
  ELSE IF st.buf = <<>> THEN [st |-> st, f |-> f, err |-> "nil"]
  ELSE IF st.closed THEN [st |-> [st EXCEPT !.err = "file already closed"],
                          f |-> f, err |-> "file already closed"]
  ELSE [st |-> st, f |-> f \o st.buf, err |-> "nil"]

\* and the reset of the count of pending bytes after it.
FlushReset(st) == [st EXCEPT !.buf = <<>>]

\* The framed record Store.Append puts in the buffer.
Frame(value) == PutUint(Len(value), lenWidth) \o value

\* Store.Append reporting the position of the payload.
StoreAppendPosPayload(st) == st.size + lenWidth

\* The position Store.Append reports for the record it writes.
StoreAppendPos(st) == st.size

\* Store.Append: flush, then buffer the length prefix and the value.
\* fl is what the flush left.
StoreAppendFlushed(fl, value) ==
  IF fl.err # "nil"
  THEN [st |-> fl.st, f |-> fl.f, n |-> 0, pos |-> 0, err |-> fl.err]
  ELSE [st |-> [fl.st EXCEPT !.buf = @ \o Frame(value),
                             !.size = @ + lenWidth + Len(value)],
        f |-> fl.f,
        n |-> lenWidth + Len(value),
        pos |-> StoreAppendPos(fl.st),
        err |-> "nil"]

StoreAppend(st, f, value) == StoreAppendFlushed(Flush(st, f), value)

\* os.File.ReadAt of n bytes at byte offset pos.
FileReadAt(f, closed, pos, n) ==
  IF n = 0 THEN [b |-> <<>>, err |-> "nil"]
  ELSE IF closed THEN [b |-> <<>>, err |-> "file already closed"]
  ELSE IF pos + n > Len(f) THEN [b |-> <<>>, err |-> "EOF"]
  ELSE [b |-> SubSeq(f, pos + 1, pos + n), err |-> "nil"]

\* Store.Read: flush, read the 8-byte length at pos, then that many bytes.
\* fl is what the flush left, hd the read of the length, bd of the bytes.
StoreReadBody(fl, bd) ==
  [st |-> fl.st, f |-> fl.f, out |-> bd.b, err |-> bd.err]

StoreReadSize(fl, hd, pos) ==
  IF hd.err # "nil" THEN [st |-> fl.st, f |-> fl.f, out |-> <<>>, err |-> hd.err]
  ELSE StoreReadBody(fl, FileReadAt(fl.f, fl.st.closed, pos + lenWidth, Uint(hd.b)))

StoreReadFlushed(fl, pos) ==
  IF fl.err # "nil" THEN [st |-> fl.st, f |-> fl.f, out |-> <<>>, err |-> fl.err]
  ELSE StoreReadSize(fl, FileReadAt(fl.f, fl.st.closed, pos, lenWidth), pos)

StoreRead(st, f, pos) == StoreReadFlushed(Flush(st, f), pos)

\* Store.Close: flush, then close the file.
StoreCloseFlushed(fl) ==
  IF fl.err # "nil" THEN [st |-> fl.st, f |-> fl.f, err |-> fl.err]
  ELSE IF fl.st.closed THEN [st |-> fl.st, f |-> fl.f, err |-> "file already closed"]
  ELSE [st |-> [fl.st EXCEPT !.closed = TRUE], f |-> fl.f, err |-> "nil"]

StoreClose(st, f) == StoreCloseFlushed(Flush(st, f))

\* os.File.ReadAt into a buffer of n bytes: the bytes there are, and io.EOF
\* when they are fewer than n.
FileReadSome(f, closed, pos, n) ==
  IF closed THEN [b |-> <<>>, err |-> "file already closed"]
  ELSE IF pos + n > Len(f)
       THEN [b |-> SubSeq(f, pos + 1, Len(f)), err |-> "EOF"]
  ELSE [b |-> SubSeq(f, pos + 1, pos + n), err |-> "nil"]

\* Store.ReadAt: flush, then File.ReadAt. fl is what the flush left.
StoreReadAtFlushed(fl, off, n) ==
  IF fl.err # "nil" THEN [st |-> fl.st, f |-> fl.f, out |-> <<>>, err |-> fl.err]
  ELSE [st |-> fl.st, f |-> fl.f,
        out |-> FileReadSome(fl.f, fl.st.closed, off, n).b,
        err |-> FileReadSome(fl.f, fl.st.closed, off, n).err]

\* Store.ReadAt going to the file without a flush.
StoreReadAtUnflushed(st, f, off, n) ==
  StoreReadAtFlushed([st |-> st, f |-> f, err |-> "nil"], off, n)

StoreReadAt(st, f, off, n) == StoreReadAtFlushed(Flush(st, f), off, n)

\* The Store of unnamed/part_000 (NewStore). Its Append buffers the frame
\* without a flush before it; a sticky error of the writer is returned.
Part000Append(st, f, p) ==
  IF st.err # "nil" THEN [st |-> st, f |-> f, n |-> 0, pos |-> 0, err |-> st.err]
  ELSE [st |-> [st EXCEPT !.buf = @ \o Frame(p), !.size = @ + lenWidth + Len(p)],
        f |-> f,
        n |-> Len(p) + lenWidth,
        pos |-> st.size,
        err |-> "nil"]

\* Its Read goes to the file at once: the length at pos, then the bytes.
Part000Read(st, f, pos) == StoreReadFlushed([st |-> st, f |-> f, err |-> "nil"], pos)

\* Its ReadAt and Close flush first, as those of store.go do.
Part000ReadAt(st, f, off, n) == StoreReadAtFlushed(Flush(st, f), off, n)

Part000Close(st, f) == StoreCloseFlushed(Flush(st, f))

\* The two Store implementations of the repository.
StoreImpls == {"log/store.go", "unnamed/part_000"}

\* ------------------------------------------------------------- Index
\* An Index object: size, the mapping's bytes (mmap; shared with the file
\* while the file is open) and whether its file has been closed.

\* newIndex: size is the file's length; the file is then cut or zero-extended
\* to MaxIndexBytes and mapped.
newIndex(f, c) ==
  [size |-> Len(f),
   mmap |-> IF Len(f) >= c.MaxIndexBytes THEN SubSeq(f, 1, c.MaxIndexBytes)
            ELSE f \o Zeros(c.MaxIndexBytes - Len(f)),
   closed |-> FALSE]

\* Index.Write's test for room refusing an entry that fills the mapping.
IndexHasRoomBelow(ix) == Len(ix.mmap) > ix.size + entWidth

\* Index.Write's test for room.
IndexHasRoom(ix) == ~(Len(ix.mmap) < ix.size + entWidth)

\* Index.Write. Close cuts the file to size and leaves the mapping mapped. The
\* mapping lies within one page (MaxIndexBytes is below the page size in every
\* configuration here): a store to it after Close faults when the file was
\* cut to length 0, and otherwise changes the page in memory only. A store
\* that succeeds leaves size above 0, so size = 0 tells the cut was to 0.
IndexWrite(ix, off, pos) ==
  IF ~IndexHasRoom(ix) THEN [ix |-> ix, err |-> "EOF"]
  ELSE IF ix.closed /\ ix.size = 0 THEN [ix |-> ix, err |-> "SIGBUS"]
  ELSE [ix |-> [ix EXCEPT
                  !.mmap = Overwrite(Overwrite(@, ix.size, PutUint(off, offWidth)),
                                     ix.size + offWidth, PutUint(pos, posWidth)),
                  !.size = @ + entWidth],
        err |-> "nil"]

\* Index.Read: entry number in, or the last entry for -1.
\* The entry number Index.Read looks up for in.
IndexEntry(ix, in) == IF in = -1 THEN (ix.size \div entWidth) - 1 ELSE ToUint32(in)

\* The entry at byte pos of the mapping.
IndexReadAt(ix, pos) ==
  IF ix.size < pos + entWidth THEN [out |-> 0, pos |-> 0, err |-> "EOF"]
  ELSE [out |-> Uint(SubSeq(ix.mmap, pos + 1, pos + offWidth)),
        pos |-> Uint(SubSeq(ix.mmap, pos + offWidth + 1, pos + entWidth)),
        err |-> "nil"]

IndexRead(ix, in) ==
  IF ix.size = 0 THEN [out |-> 0, pos |-> 0, err |-> "EOF"]
  ELSE IndexReadAt(ix, IndexEntry(ix, in) * entWidth)

\* Index.Read of an int64 entry number of any size, in two parts: the entry
\* number looked up is uint32(in), or uint32(size/12 - 1) for -1.
IndexEntryWide(ix, in) ==
  IF in = Wide(-1) THEN WideUint32(Wide((ix.size \div entWidth) - 1)) ELSE WideUint32(in)

\* out is the entry number: pos = uint64(out) * entWidth, out of range when
\* size < pos + entWidth.
IndexReadEntry(ix, out) ==
  IF WideLess(Wide(ix.size), WideScale(out, entWidth, entWidth))
  THEN [out |-> 0, pos |-> 0, err |-> "EOF"]
  ELSE IndexReadAt(ix, (out.hi * 65536 + out.lo) * entWidth)

IndexReadWide(ix, in) ==
  IF ix.size = 0 THEN [out |-> 0, pos |-> 0, err |-> "EOF"]
  ELSE IndexReadEntry(ix, IndexEntryWide(ix, in))

\* Index.Close leaving the file at the mapping's length.
IndexCloseLenMapped(ix) == Len(ix.mmap)

\* The length Index.Close cuts the file to.
IndexCloseLen(ix) == ix.size

\* Index.Close: sync the mapping and the file, truncate the file, close it.
\* f is the file's content; the mapping stays mapped.
IndexClose(ix, f) ==
  IF ix.closed THEN [ix |-> ix, f |-> f, err |-> "file already closed"]
  ELSE [ix |-> [ix EXCEPT !.closed = TRUE],
        f |-> SubSeq(ix.mmap, 1, IndexCloseLen(ix)),
        err |-> "nil"]

\* Index.Close when the sync of the mapping fails with an I/O error: Close
\* returns the error at once, the file neither cut nor closed.
IndexCloseSyncFails(ix, f) == [ix |-> ix, f |-> f, err |-> "EIO"]

\* NewIndex of unnamed/part_007: an empty file is extended to initialSize;
\* size is the file's length and the whole file is mapped.
Part007NewIndex(f) ==
  [size |-> IF f = <<>> THEN initialSize ELSE Len(f),
   mmap |-> IF f = <<>> THEN [i \in 1 .. initialSize |-> 0] ELSE f,
   closed |-> FALSE]

\* The calls Index.Close makes, in the order of the source, by implementation:
\* the Index of log/log.go and log/index.go, and that of unnamed/part_007.
CloseSteps(im) ==
  IF im = "unnamed/part_007"
  THEN <<"mmap.Sync", "file.Truncate", "mmap.UnsafeUnmap", "file.Close">>
  ELSE <<"mmap.Sync", "file.Sync", "file.Truncate", "file.Close">>

\* One call of Index.Close on c, an Index with its file: the syncs write the
\* mapping's bytes to the file, Truncate cuts the file to size, UnsafeUnmap
\* ends the mapping, Close closes the file.
CloseStep(c, step) ==
  [c EXCEPT !.f = IF step = "file.Truncate" THEN SubSeq(c.ix.mmap, 1, c.ix.size)
                  ELSE IF step \in {"mmap.Sync", "file.Sync"} /\ c.mapped THEN c.ix.mmap
                  ELSE @,
            !.mapped = @ /\ step # "mmap.UnsafeUnmap",
            !.ix.closed = (step = "file.Close"),
            !.done = Append(@, step)]

\* --------------------------------------------------------- directory
\* The log's directory: file name -> bytes. A name is <<stem, extension>>;
\* a stem strconv.ParseUint rejects is written as a negative number.
StoreName(base) == <<base, "store">>
IndexName(base) == <<base, "index">>

FileOr(d, name) == IF name \in DOMAIN d THEN d[name] ELSE <<>>

WriteFile(d, name, bytes) ==
  [n \in DOMAIN d \cup {name} |-> IF n = name THEN bytes ELSE d[n]]

RemoveFile(d, name) == [n \in DOMAIN d \ {name} |-> d[n]]

\* ----------------------------------------------------------- segment
\* A segment object: baseOffset, nextOffset, its store and its index.

\* NewSegment taking the last entry's relative offset for the next one.
SegmentNextOffsetLast(baseOffset, last) ==
  IF last.err # "nil" THEN baseOffset ELSE baseOffset + last.out

\* What NewSegment sets nextOffset to from the index's last entry.
\* last is what index.Read(-1) returned.
SegmentNextOffset(baseOffset, last) ==
  IF last.err # "nil" THEN baseOffset ELSE baseOffset + last.out + 1

\* The segment over store file sf and the new Index ix.
NewSegmentOver(d, baseOffset, sf, ix) ==
  [s |-> [baseOffset |-> baseOffset,
          nextOffset |-> SegmentNextOffset(baseOffset, IndexRead(ix, -1)),
          store |-> newStore(sf),
          index |-> ix],
   d |-> WriteFile(WriteFile(d, StoreName(baseOffset), sf),
                   IndexName(baseOffset), ix.mmap)]

\* NewSegment: open or create {base}.store and {base}.index.
NewSegment(d, baseOffset, c) ==
  NewSegmentOver(d, baseOffset, FileOr(d, StoreName(baseOffset)),
                 newIndex(FileOr(d, IndexName(baseOffset)), c))

\* The directory after an operation on segment s left its store file as sf:
\* a closed store writes nothing, and its file may be gone.
PutStore(d, s, st, sf) ==
  IF st.closed THEN d ELSE WriteFile(d, StoreName(s.baseOffset), sf)

\* The mapping is shared: while the index file is open it holds the
\* mapping's bytes.
PutIndex(d, s, ix) ==
  IF ix.closed THEN d ELSE WriteFile(d, IndexName(s.baseOffset), ix.mmap)

\* segment.Append assigning the offset relative to the segment's base.
SegmentAssignRelative(s) == s.nextOffset - s.baseOffset

\* The offset segment.Append assigns to the record.
SegmentAssign(s) == s.nextOffset

\* The relative offset segment.Append writes to the index.
SegmentRelative(s) == ToUint32(s.nextOffset - s.baseOffset)

\* segment.Append. The record's own offset field is overwritten.
\* s and d are the segment and directory after store.Append, cur the offset
\* assigned, iw what index.Write returned.
SegmentAppendIndexed(s, d, cur, iw) ==
  IF iw.err # "nil" THEN [s |-> [s EXCEPT !.index = iw.ix], d |-> d, off |-> 0, err |-> iw.err]
  ELSE [s |-> [s EXCEPT !.index = iw.ix, !.nextOffset = @ + 1],
        d |-> PutIndex(d, s, iw.ix), off |-> cur, err |-> "nil"]

\* sa is what store.Append returned.
SegmentAppendStored(s, d, cur, sa) ==
  IF sa.err # "nil"
  THEN [s |-> [s EXCEPT !.store = sa.st], d |-> PutStore(d, s, sa.st, sa.f),
        off |-> 0, err |-> sa.err]
  ELSE SegmentAppendIndexed([s EXCEPT !.store = sa.st], PutStore(d, s, sa.st, sa.f), cur,
                            IndexWrite(s.index, SegmentRelative(s), sa.pos))

SegmentAppendAt(s, d, record, cur) ==
  SegmentAppendStored(s, d, cur,
                      StoreAppend(s.store, FileOr(d, StoreName(s.baseOffset)),
                                  Marshal([record EXCEPT !.offset = cur])))

SegmentAppend(s, d, record) == SegmentAppendAt(s, d, record, SegmentAssign(s))

\* segment.Read.
\* s and d are the segment and directory after store.Read, um what
\* proto.Unmarshal made of the bytes.
SegmentReadParsed(s, d, um) ==
  IF ~um.ok THEN [s |-> s, d |-> d, rec |-> NoRecord, err |-> "proto: cannot parse"]
  ELSE [s |-> s, d |-> d, rec |-> um.rec, err |-> "nil"]

\* sr is what store.Read returned.
SegmentReadStored(s, d, sr) ==
  IF sr.err # "nil"
  THEN [s |-> [s EXCEPT !.store = sr.st], d |-> PutStore(d, s, sr.st, sr.f),
        rec |-> NoRecord, err |-> sr.err]
  ELSE SegmentReadParsed([s EXCEPT !.store = sr.st], PutStore(d, s, sr.st, sr.f),
                         Unmarshal(sr.out))

\* ir is what index.Read returned.
SegmentReadIndexed(s, d, ir) ==
  IF ir.err # "nil" THEN [s |-> s, d |-> d, rec |-> NoRecord, err |-> ir.err]
  ELSE SegmentReadStored(s, d, StoreRead(s.store, FileOr(d, StoreName(s.baseOffset)), ir.pos))

SegmentRead(s, d, off) == SegmentReadIndexed(s, d, IndexRead(s.index, off - s.baseOffset))

\* segment.Read of a uint64 offset of any size, in two parts: the index is
\* asked for int64(off - baseOffset).
SegmentReadWide(s, d, off) ==
  SegmentReadIndexed(s, d, IndexReadWide(s.index, WideScale(off, 1, 0 - s.baseOffset)))

\* segment.IsMaxed asking for more than the maximum.
IsMaxedAbove(s, c) ==
  s.store.size > c.MaxStoreBytes \/ s.index.size > c.MaxIndexBytes

\* segment.IsMaxed.
IsMaxed(s, c) ==
  s.store.size >= c.MaxStoreBytes \/ s.index.size >= c.MaxIndexBytes

\* segment.Close: the index, then the store; the first error ends it.
\* s and d are the segment and directory after index.Close, sc what
\* store.Close returned.
SegmentCloseStore(s, d, sc) ==
  [s |-> [s EXCEPT !.store = sc.st],
   d |-> IF s.store.closed THEN d ELSE WriteFile(d, StoreName(s.baseOffset), sc.f),
   err |-> sc.err]

\* ic is what index.Close returned.
SegmentCloseIndex(s, d, ic) ==
  IF ic.err # "nil" THEN [s |-> [s EXCEPT !.index = ic.ix], d |-> d, err |-> ic.err]
  ELSE SegmentCloseStore([s EXCEPT !.index = ic.ix],
                         WriteFile(d, IndexName(s.baseOffset), ic.f),
                         StoreClose(s.store, FileOr(d, StoreName(s.baseOffset))))

SegmentClose(s, d) ==
  SegmentCloseIndex(s, d, IndexClose(s.index, FileOr(d, IndexName(s.baseOffset))))

\* segment.Remove: close, then delete the index file and the store file.
\* cl is what Close returned.
SegmentRemoveClosed(s, cl) ==
  IF cl.err # "nil" THEN cl
  ELSE [s |-> cl.s,
        d |-> RemoveFile(RemoveFile(cl.d, IndexName(s.baseOffset)),
                         StoreName(s.baseOffset)),
        err |-> "nil"]

SegmentRemove(s, d) == SegmentRemoveClosed(s, SegmentClose(s, d))

\* --------------------------------------------------------------- Log
\* A Log object l: Config, segments (a list of references into objs, the
\* segment objects allocated so far) and activeSegment (a reference, 0 = nil).

\* strconv.ParseUint(stem, 10, 0) with its error dropped: 0 for a stem that
\* is no unsigned number.
ParseUint(stem) == IF stem >= 0 THEN stem ELSE 0

\* setup's baseOffsets after sort.Slice: one entry per file of the directory.
\* A file name whose offset is lowest.
LowestName(names) ==
  CHOOSE n \in names : \A k \in names : ParseUint(n[1]) <= ParseUint(k[1])

RECURSIVE SortedOffsets(_)
SortedFrom(names, m) == <<ParseUint(m[1])>> \o SortedOffsets(names \ {m})

SortedOffsets(names) ==
  IF names = {} THEN <<>> ELSE SortedFrom(names, LowestName(names))

\* Log.NewSegment: the new segment joins the list and becomes active.
\* ns is what NewSegment returned.
LogAddSegment(l, ns) ==
  [l |-> [l EXCEPT !.objs = Append(@, ns.s),
                   !.segments = Append(@, Len(l.objs) + 1),
                   !.activeSegment = Len(l.objs) + 1],
   d |-> ns.d]

LogNewSegment(l, d, off) == LogAddSegment(l, NewSegment(d, off, l.Config))

\* setup's loop over baseOffsets: a segment for baseOffsets[i], and i is
\* stepped twice to skip the twin of the store/index pair.
RECURSIVE SetupLoop(_, _, _, _)
SetupNext(r, baseOffsets, i) == SetupLoop(r.l, r.d, baseOffsets, i + 2)

SetupLoop(l, d, baseOffsets, i) ==
  IF i > Len(baseOffsets) THEN [l |-> l, d |-> d]
  ELSE SetupNext(LogNewSegment(l, d, baseOffsets[i]), baseOffsets, i)

\* setup's end: r is the log and directory after the loop.
SetupInitial(r) ==
  IF r.l.segments = <<>> THEN LogNewSegment(r.l, r.d, r.l.Config.InitialOffset)
  ELSE r

\* Log.setup.
setup(l, d) == SetupInitial(SetupLoop(l, d, SortedOffsets(DOMAIN d), 1))

\* NewLog's defaults for zero sizes.
WithDefaults(c) ==
  [c EXCEPT !.MaxStoreBytes = IF @ = 0 THEN DefaultMaxStoreBytes ELSE @,
            !.MaxIndexBytes = IF @ = 0 THEN DefaultMaxIndexBytes ELSE @]

\* NewLog: the defaults, then setup.
NewLog(d, c) ==
  setup([Config |-> WithDefaults(c), segments |-> <<>>, activeSegment |-> 0, objs |-> <<>>], d)

\* Log.Append rolling over to a segment based at the offset just returned.
RolloverBaseSame(off) == off

\* The base offset Log.Append gives the segment it rolls over to.
RolloverBase(off) == off + 1

\* Log.Append.
\* n is the log and directory after Log.NewSegment.
LogAppendRolled(n, off) == [l |-> n.l, d |-> n.d, off |-> off, err |-> "nil"]

\* l is the log after activeSegment.Append, which returned r.
LogAppendAppended(l, r) ==
  IF r.err # "nil" THEN [l |-> l, d |-> r.d, off |-> 0, err |-> r.err]
  ELSE IF IsMaxed(r.s, l.Config)
       THEN LogAppendRolled(LogNewSegment(l, r.d, RolloverBase(r.off)), r.off)
  ELSE [l |-> l, d |-> r.d, off |-> r.off, err |-> "nil"]

LogAppendTo(l, r) == LogAppendAppended([l EXCEPT !.objs[l.activeSegment] = r.s], r)

LogAppend(l, d, record) ==
  LogAppendTo(l, SegmentAppend(l.objs[l.activeSegment], d, record))

\* Log.Append in the steps other goroutines can come between. id is the
\* segment activeSegment.Append was called on and cur the offset it assigned;
\* r is what the rest of segment.Append returned. IsMaxed is asked of the
\* segment that is active then.
LogAppendedOn(l, r) ==
  IF r.err # "nil" THEN [l |-> l, d |-> r.d, off |-> 0, err |-> r.err]
  ELSE IF IsMaxed(l.objs[l.activeSegment], l.Config)
       THEN LogAppendRolled(LogNewSegment(l, r.d, RolloverBase(r.off)), r.off)
  ELSE [l |-> l, d |-> r.d, off |-> r.off, err |-> "nil"]

LogAppendStep(l, id, r) == LogAppendedOn([l EXCEPT !.objs[id] = r.s], r)

LogAppendOn(l, d, id, record, cur) ==
  LogAppendStep(l, id, SegmentAppendAt(l.objs[id], d, record, cur))

\* Log.Read's test with the upper bound included.
HoldsThrough(s, off) == s.baseOffset <= off /\ off <= s.nextOffset

\* Log.Read's test that a segment holds off.
Holds(s, off) == s.baseOffset <= off /\ off < s.nextOffset

\* Log.Read's scan: the position in the list of the first segment that holds
\* off, 0 when there is none.
First(hits) == IF hits = {} THEN 0 ELSE CHOOSE i \in hits : \A j \in hits : i <= j

FindSegment(l, off) ==
  First({i \in 1 .. Len(l.segments) : Holds(l.objs[l.segments[i]], off)})

\* The error Log.Read makes for an offset no segment holds.
OutOfRangeError == "fmt.Errorf: offset out of range"

\* Log.Read.
\* r is what the Read of segment id returned.
LogReadSegment(l, id, r) ==
  [l |-> [l EXCEPT !.objs[id] = r.s], d |-> r.d, rec |-> r.rec, err |-> r.err]

\* i is the position FindSegment found.
LogReadAt(l, d, off, i) ==
  IF i = 0 THEN [l |-> l, d |-> d, rec |-> NoRecord, err |-> OutOfRangeError]
  ELSE LogReadSegment(l, l.segments[i], SegmentRead(l.objs[l.segments[i]], d, off))

LogRead(l, d, off) == LogReadAt(l, d, off, FindSegment(l, off))

\* Log.Close's loop from position i of the list.
RECURSIVE CloseLoop(_, _, _)
\* r is what the Close of segment id returned.
CloseNext(l, id, r, i) ==
  IF r.err # "nil" THEN [l |-> [l EXCEPT !.objs[id] = r.s], d |-> r.d, err |-> r.err]
  ELSE CloseLoop([l EXCEPT !.objs[id] = r.s], r.d, i + 1)

CloseLoop(l, d, i) ==
  IF i > Len(l.segments) THEN [l |-> l, d |-> d, err |-> "nil"]
  ELSE CloseNext(l, l.segments[i], SegmentClose(l.objs[l.segments[i]], d), i)

\* Log.Close.
LogClose(l, d) == CloseLoop(l, d, 1)

\* Log.LowestOffset: indexing an empty list panics.
LowestOffset(l) ==
  IF l.segments = <<>> THEN [off |-> 0, err |-> "panic: index out of range"]
  ELSE [off |-> l.objs[l.segments[1]].baseOffset, err |-> "nil"]

\* Log.HighestOffset without the test for 0.
HighestFromRaw(off) == off - 1

\* Log.HighestOffset.
\* off is the last segment's nextOffset.
HighestFrom(off) == IF off = 0 THEN 0 ELSE off - 1

HighestOffset(l) ==
  IF l.segments = <<>> THEN [off |-> 0, err |-> "panic: index out of range"]
  ELSE [off |-> HighestFrom(l.objs[l.segments[Len(l.segments)]].nextOffset), err |-> "nil"]

\* Log.Truncate's test without the + 1, and with one too many.
RemovesBelow(s, lowest) == s.nextOffset <= lowest

RemovesThrough(s, lowest) == s.nextOffset <= lowest + 2

\* Log.Truncate's test that a segment goes.
Removes(s, lowest) == s.nextOffset <= lowest + 1

\* Log.Truncate's loop from position i of the list, kept being the list of
\* the segments kept so far. An error returns before the list is replaced.
RECURSIVE TruncateLoop(_, _, _, _, _)
\* r is what the Remove of segment id returned.
TruncateRemoved(l, id, r, lowest, i, kept) ==
  IF r.err # "nil" THEN [l |-> [l EXCEPT !.objs[id] = r.s], d |-> r.d, err |-> r.err]
  ELSE TruncateLoop([l EXCEPT !.objs[id] = r.s], r.d, lowest, i + 1, kept)

TruncateSegment(l, d, id, lowest, i, kept) ==
  IF Removes(l.objs[id], lowest)
  THEN TruncateRemoved(l, id, SegmentRemove(l.objs[id], d), lowest, i, kept)
  ELSE TruncateLoop(l, d, lowest, i + 1, Append(kept, id))

TruncateLoop(l, d, lowest, i, kept) ==
  IF i > Len(l.segments) THEN [l |-> [l EXCEPT !.segments = kept], d |-> d, err |-> "nil"]
  ELSE TruncateSegment(l, d, l.segments[i], lowest, i, kept)

\* Log.Truncate.
LogTruncate(l, d, lowest) == TruncateLoop(l, d, lowest, 1, <<>>)

\* os.ReadDir at the head of setup: it fails once the directory itself is
\* gone. g tells whether it is.
SetupIn(l, d, g) ==
  IF g THEN [l |-> l, d |-> d, gone |-> g, err |-> "ENOENT"]
  ELSE [l |-> setup(l, d).l, d |-> setup(l, d).d, gone |-> g, err |-> "nil"]

\* Log.Remove: Close, then os.RemoveAll(l.Dir), which deletes the directory
\* with everything in it. c is what Close returned.
LogRemoveClosed(c, g) ==
  IF c.err # "nil" THEN [l |-> c.l, d |-> c.d, gone |-> g, err |-> c.err]
  ELSE [l |-> c.l, d |-> <<>>, gone |-> TRUE, err |-> "nil"]

LogRemove(l, d, g) == LogRemoveClosed(LogClose(l, d), g)

\* Log.Reset: Remove, then setup on the same Log object, whose segment list
\* and active segment Remove left as they were. rm is what Remove returned.
LogResetRemoved(rm) ==
  IF rm.err # "nil" THEN rm ELSE SetupIn(rm.l, rm.d, rm.gone)

LogReset(l, d, g) == LogResetRemoved(LogRemove(l, d, g))

\* Log.Append when the directory is gone: the os.OpenFile of a rollover's
\* NewSegment fails, after the record went to the active segment. r is what
\* Append returns in a directory that exists.
LogAppendNoDir(l, r) ==
  IF r.err = "nil" /\ r.l.activeSegment # l.activeSegment
  THEN [l |-> [r.l EXCEPT !.segments = l.segments,
                          !.activeSegment = l.activeSegment,
                          !.objs = SubSeq(@, 1, Len(l.objs))],
        d |-> <<>>, off |-> r.off, err |-> "ENOENT"]
  ELSE r

LogAppendIn(l, d, g, record) ==
  IF g THEN LogAppendNoDir(l, LogAppend(l, d, record)) ELSE LogAppend(l, d, record)

\* Log.Reader, read to its end: io.MultiReader goes through the originReaders
\* of segments i, i + 1, ... of the list; each calls Store.ReadAt from byte 0
\* on, here with one buffer that takes the whole file, until io.EOF; any
\* other error ends the stream.
RECURSIVE LogReader(_, _, _)
LogReaderNext(l, d, i, r) ==
  IF r.err # "EOF" THEN [b |-> r.out, err |-> r.err]
  ELSE [b |-> r.out \o LogReader(l, d, i + 1).b, err |-> LogReader(l, d, i + 1).err]

LogReader(l, d, i) ==
  IF i > Len(l.segments) THEN [b |-> <<>>, err |-> "nil"]
  ELSE LogReaderNext(l, d, i,
         StoreReadAt(l.objs[l.segments[i]].store,
                     FileOr(d, StoreName(l.objs[l.segments[i]].baseOffset)), 0,
                     Len(FileOr(d, StoreName(l.objs[l.segments[i]].baseOffset)))
                       + Len(l.objs[l.segments[i]].store.buf) + 1))

\* ------------------------------------------------------- gRPC server
\* The type assertion err.(*api.ErrOffsetOutOfRange) of Consume: it holds
\* only of an error whose dynamic type is that pointer type.
IsErrOffsetOutOfRange(err) == err = "*api.ErrOffsetOutOfRange"

\* grpcServer.Consume's error for the error Log.Read returned.
ConsumeError(err) ==
  IF IsErrOffsetOutOfRange(err) THEN "grpc status 404: offset fuera de rango" ELSE err

\* ------------------------------------------------------------- state
VARIABLES
  cfg,        \* the Config the caller passes to NewLog
  l,          \* the Log object
  dir,        \* the files of the log's directory
  ret,        \* the last call and what it returned
  hist,       \* the successful Appends so far, in order: the offset returned,
              \* the value, whether the log was open, and whether a Truncate
              \* has removed the segment the record went to
  truncated,  \* Truncate has removed a segment
  closed,     \* Log.Close has returned nil on l
  atClose,    \* what HighestOffset() was when Close last returned nil
  crashed,    \* the process died on a fault or a panic
  gone,       \* Log.Remove has deleted the directory
  nAppends,   \* Append calls so far
  reopened,   \* NewLog has been called again on the directory
  impl,       \* a Store used on its own: which implementation it is,
  store,      \* the Store object,
  file,       \* its file's bytes,
  sret,       \* the last call on it and what it returned,
  shist,      \* and its successful Appends: position, payload, on an open file
  ixc,        \* an Index used on its own: which implementation it is,
              \* the Index object, its file's bytes, whether the mapping is
              \* mapped, and the steps of Close done so far
  pc,         \* goroutines calling the Log: where each one is in its call,
  loc,        \* each one's local variables,
  mu,         \* the Log's RWMutex: the writer (0 = none) and the readers,
  smu         \* the segments (references into l.objs) whose Store's mutex
              \* is held

logVars == <<cfg, l, dir, ret, hist, truncated, closed, atClose, crashed, gone, nAppends, reopened>>

storeVars == <<impl, store, file, sret, shist, ixc>>

threadVars == <<pc, loc, mu, smu>>

vars == <<logVars, storeVars, threadVars>>

Ret(op, arg, off, rec, err) ==
  [op |-> op, arg |-> arg, off |-> off, rec |-> rec, err |-> err]

SRet(op, arg, out, pos, err) ==
  [op |-> op, arg |-> arg, out |-> out, pos |-> pos, err |-> err]

\* The state after newStore / NewStore on an empty file, for a Store of one
\* of the implementations impls.
StoreInit(impls) ==
  /\ impl \in impls
  /\ file = <<>>
  /\ store = newStore(file)
  /\ sret = SRet("NewStore", 0, <<>>, 0, "nil")
  /\ shist = <<>>

\* The state after newIndex / NewIndex of one of the implementations ims on
\* an empty file, under the Config with the largest MaxIndexBytes.
IndexInit(ims) ==
  \E im \in ims :
    ixc = [impl |-> im,
           ix |-> IF im = "unnamed/part_007" THEN Part007NewIndex(<<>>)
                  ELSE newIndex(<<>>, CHOOSE c \in Configs : c.MaxIndexBytes = 48),
           f |-> IF im = "unnamed/part_007" THEN Part007NewIndex(<<>>).mmap ELSE Zeros(48),
           mapped |-> TRUE,
           done |-> <<>>]

\* The state after NewLog(dir, cfg) on an empty directory, cfg being one of
\* the Configs cs.
LogInit(cs) ==
  /\ cfg \in cs
  /\ \E r \in {NewLog(<<>>, cfg)} : l = r.l /\ dir = r.d
  /\ ret = Ret("NewLog", 0, 0, NoRecord, "nil")
  /\ hist = <<>>
  /\ truncated = FALSE
  /\ closed = FALSE
  /\ atClose = [off |-> 0, err |-> "none"]
  /\ crashed = FALSE
  /\ gone = FALSE
  /\ nAppends = 0
  /\ reopened = FALSE

Threads == 1 .. NumThreads

NoLocals == [v |-> <<>>, arg |-> 0, seen |-> 0, seg |-> 0, cur |-> 0, pos |-> 0]

\* No goroutine is in a call, no lock is held.
ThreadInit ==
  /\ pc = [t \in Threads |-> "idle"]
  /\ loc = [t \in Threads |-> NoLocals]
  /\ mu = [writer |-> 0, readers |-> {}]
  /\ smu = {}

Init ==
  /\ LogInit(Configs) /\ StoreInit({"log/store.go"}) /\ IndexInit({"log/log.go"}) /\ ThreadInit

\* Log.Append(record), record carrying value v and the caller's offset o.
DoAppend(v, o) ==
  /\ ~crashed
  /\ nAppends < MaxAppends
  /\ \E r \in {LogAppendIn(l, dir, gone, [value |-> v, offset |-> o])} :
        /\ l' = r.l
        /\ dir' = r.d
        /\ crashed' = (r.err = "SIGBUS")
        /\ ret' = Ret("Append", o, r.off, [value |-> v, offset |-> r.off], r.err)
        /\ hist' = IF r.err = "nil"
                   THEN Append(hist, [off |-> r.off, val |-> v, open |-> ~closed,
                                      cut |-> \A i \in 1 .. Len(l.segments) :
                                                l.segments[i] # l.activeSegment])
                   ELSE hist
  /\ nAppends' = nAppends + 1
  /\ UNCHANGED <<cfg, truncated, closed, atClose, gone, reopened>>
  /\ UNCHANGED <<storeVars, threadVars>>

\* Log.Read(off).
DoRead(off) ==
  /\ ~crashed
  /\ \E r \in {LogRead(l, dir, off)} :
        /\ l' = r.l
        /\ dir' = r.d
        /\ ret' = Ret("Read", off, off, r.rec, r.err)
  /\ UNCHANGED <<cfg, hist, truncated, closed, atClose, crashed, gone, nAppends, reopened>>
  /\ UNCHANGED <<storeVars, threadVars>>

\* grpcServer.Consume(req) with req.Offset = off.
DoConsume(off) ==
  /\ ~crashed
  /\ \E r \in {LogRead(l, dir, off)} :
        /\ l' = r.l
        /\ dir' = r.d
        /\ ret' = Ret("Consume", off, off, r.rec, ConsumeError(r.err))
  /\ UNCHANGED <<cfg, hist, truncated, closed, atClose, crashed, gone, nAppends, reopened>>
  /\ UNCHANGED <<storeVars, threadVars>>

\* Offset off lies in a segment of l's list that is not in the list kept.
CutBy(off, kept) ==
  \E i \in 1 .. Len(l.segments) :
    /\ Holds(l.objs[l.segments[i]], off)
    /\ \A j \in 1 .. Len(kept) : kept[j] # l.segments[i]

\* Log.Truncate(lowest).
DoTruncate(lowest) ==
  /\ ~crashed
  /\ \E r \in {LogTruncate(l, dir, lowest)} :
        /\ l' = r.l
        /\ dir' = r.d
        /\ ret' = Ret("Truncate", lowest, 0, NoRecord, r.err)
        /\ truncated' = (truncated \/ DOMAIN r.d # DOMAIN dir)
        /\ hist' = [k \in 1 .. Len(hist) |->
                     [hist[k] EXCEPT !.cut = @ \/ CutBy(hist[k].off, r.l.segments)]]
  /\ UNCHANGED <<cfg, closed, atClose, crashed, gone, nAppends, reopened>>
  /\ UNCHANGED <<storeVars, threadVars>>

\* Log.Close().
DoClose ==
  /\ ~crashed
  /\ \E r \in {LogClose(l, dir)} :
        /\ l' = r.l
        /\ dir' = r.d
        /\ ret' = Ret("Close", 0, 0, NoRecord, r.err)
        /\ closed' = (closed \/ r.err = "nil")
        /\ atClose' = IF r.err = "nil" THEN HighestOffset(l) ELSE atClose
  /\ UNCHANGED <<cfg, hist, truncated, crashed, gone, nAppends, reopened>>
  /\ UNCHANGED <<storeVars, threadVars>>

\* Log.Reset().
DoReset ==
  /\ ~crashed
  /\ \E r \in {LogReset(l, dir, gone)} :
        /\ l' = r.l
        /\ dir' = r.d
        /\ gone' = r.gone
        /\ ret' = Ret("Reset", 0, 0, NoRecord, r.err)
        /\ closed' = (closed \/ r.gone)
  /\ UNCHANGED <<cfg, hist, truncated, atClose, crashed, nAppends, reopened>>
  /\ UNCHANGED <<storeVars, threadVars>>

\* Log.LowestOffset().
DoLowestOffset ==
  /\ ~crashed
  /\ \E r \in {LowestOffset(l)} :
        /\ ret' = Ret("LowestOffset", 0, r.off, NoRecord, r.err)
        /\ crashed' = (r.err # "nil")
  /\ UNCHANGED <<cfg, l, dir, hist, truncated, closed, atClose, gone, nAppends, reopened>>
  /\ UNCHANGED <<storeVars, threadVars>>

\* Log.HighestOffset().
DoHighestOffset ==
  /\ ~crashed
  /\ \E r \in {HighestOffset(l)} :
        /\ ret' = Ret("HighestOffset", 0, r.off, NoRecord, r.err)
        /\ crashed' = (r.err # "nil")
  /\ UNCHANGED <<cfg, l, dir, hist, truncated, closed, atClose, gone, nAppends, reopened>>
  /\ UNCHANGED <<storeVars, threadVars>>

\* NewLog on the same directory with the same Config, after Close. The model
\* does not follow a NewLog on a directory that is gone: it returns setup's
\* error and a Log without segments.
DoNewLog ==
  /\ ~crashed
  /\ closed
  /\ ~gone
  /\ \E r \in {NewLog(dir, cfg)} :
        /\ l' = r.l
        /\ dir' = r.d
  /\ ret' = Ret("NewLog", 0, 0, NoRecord, "nil")
  /\ closed' = FALSE
  /\ reopened' = TRUE
  /\ UNCHANGED <<cfg, hist, truncated, atClose, crashed, gone, nAppends>>
  /\ UNCHANGED <<storeVars, threadVars>>

\* The log used through its own interface.
Next ==
  \/ \E v \in Values, o \in {0, 9} : DoAppend(v, o)
  \/ \E off \in Offsets(cfg) : DoRead(off)
  \/ \E lowest \in Offsets(cfg) : DoTruncate(lowest)
  \/ DoClose
  \/ DoNewLog
  \/ DoReset
  \/ DoLowestOffset
  \/ DoHighestOffset

Spec == Init /\ [][Next]_vars

\* The log behind the gRPC server: Produce appends, Consume reads.
NextServer ==
  \/ \E v \in Values, o \in {0, 9} : DoAppend(v, o)
  \/ \E off \in Offsets(cfg) : DoConsume(off)

SpecServer == Init /\ [][NextServer]_vars

\* The case api.ErrOffsetOutOfRange of ConsumeStream's type switch: it holds
\* only of an error whose dynamic type is that struct type.
IsErrOffsetOutOfRangeValue(err) == err = "api.ErrOffsetOutOfRange"

\* grpcServer.ConsumeStream(req, stream) is called with req.Offset = o;
\* goroutine t runs the handler. One stream is followed at a time.
StreamCall(t, o) ==
  /\ ~crashed
  /\ \A u \in Threads : pc[u] = "idle"
  /\ pc' = [pc EXCEPT ![t] = "ConsumeStream.select"]
  /\ loc' = [loc EXCEPT ![t] = [NoLocals EXCEPT !.arg = o, !.cur = o]]
  /\ UNCHANGED <<logVars, storeVars, mu, smu>>

\* The select finds stream.Context().Done() closed: return nil.
StreamDone(t) ==
  /\ ~crashed
  /\ pc[t] = "ConsumeStream.select"
  /\ pc' = [pc EXCEPT ![t] = "ConsumeStream.returned"]
  /\ ret' = Ret("ConsumeStream", loc[t].arg, loc[t].cur, NoRecord, "nil")
  /\ UNCHANGED <<cfg, l, dir, hist, truncated, closed, atClose, crashed, gone, nAppends, reopened>>
  /\ UNCHANGED <<storeVars, loc, mu, smu>>

\* The default case of the select: s.Consume, the switch on its error's type,
\* stream.Send returning sendErr, req.Offset++.
StreamStep(t, sendErr) ==
  /\ ~crashed
  /\ pc[t] = "ConsumeStream.select"
  /\ \E r \in {LogRead(l, dir, loc[t].cur)} :
        /\ l' = r.l
        /\ dir' = r.d
        /\ IF ConsumeError(r.err) = "nil"
           THEN /\ ret' = Ret("ConsumeStream", loc[t].arg, loc[t].cur, r.rec, sendErr)
                /\ pc' = [pc EXCEPT ![t] = IF sendErr = "nil" THEN "ConsumeStream.select"
                                           ELSE "ConsumeStream.returned"]
                /\ loc' = IF sendErr = "nil"
                          THEN [loc EXCEPT ![t].cur = @ + 1, ![t].seen = @ + 1]
                          ELSE loc
           ELSE IF IsErrOffsetOutOfRangeValue(ConsumeError(r.err))
           THEN /\ ret' = Ret("ConsumeStream", loc[t].arg, loc[t].cur, NoRecord, "continue")
                /\ UNCHANGED <<pc, loc>>
           ELSE /\ ret' = Ret("ConsumeStream", loc[t].arg, loc[t].cur, NoRecord,
                              ConsumeError(r.err))
                /\ pc' = [pc EXCEPT ![t] = "ConsumeStream.returned"]
                /\ UNCHANGED loc
  /\ UNCHANGED <<cfg, hist, truncated, closed, atClose, crashed, gone, nAppends, reopened>>
  /\ UNCHANGED <<storeVars, mu, smu>>

\* The server with a client of ConsumeStream.
NextStream ==
  \/ \E v \in Values, o \in {0, 9} : DoAppend(v, o)
  \/ \E t \in Threads, o \in Offsets(cfg) : StreamCall(t, o)
  \/ \E t \in Threads : StreamDone(t)
  \/ \E t \in Threads, sendErr \in {"nil", "transport is closing"} : StreamStep(t, sendErr)

SpecStream == Init /\ [][NextStream]_vars

\* --------------------------------------------------- a Store on its own
\* Store.Append(p).
StAppend(p) ==
  /\ Len(shist) < MaxAppends
  /\ \E r \in {IF impl = "log/store.go" THEN StoreAppend(store, file, p)
                ELSE Part000Append(store, file, p)} :
        /\ store' = r.st
        /\ file' = r.f
        /\ sret' = SRet("Append", p, <<>>, r.pos, r.err)
        /\ shist' = IF r.err = "nil"
                    THEN Append(shist, [pos |-> r.pos, n |-> r.n, p |-> p, open |-> ~store.closed])
                    ELSE shist
  /\ UNCHANGED <<impl, ixc, logVars, threadVars>>

\* Store.Read(pos).
StRead(pos) ==
  /\ \E r \in {IF impl = "log/store.go" THEN StoreRead(store, file, pos)
                ELSE Part000Read(store, file, pos)} :
        /\ store' = r.st
        /\ file' = r.f
        /\ sret' = SRet("Read", pos, r.out, pos, r.err)
  /\ UNCHANGED <<impl, ixc, shist, logVars, threadVars>>

\* Store.ReadAt(p, off) with len(p) = n.
StReadAt(off, n) ==
  /\ \E r \in {IF impl = "log/store.go" THEN StoreReadAt(store, file, off, n)
                ELSE Part000ReadAt(store, file, off, n)} :
        /\ store' = r.st
        /\ file' = r.f
        /\ sret' = SRet("ReadAt", off, r.out, n, r.err)
  /\ UNCHANGED <<impl, ixc, shist, logVars, threadVars>>

\* Store.Close().
StClose ==
  /\ \E r \in {IF impl = "log/store.go" THEN StoreClose(store, file)
                ELSE Part000Close(store, file)} :
        /\ store' = r.st
        /\ file' = r.f
        /\ sret' = SRet("Close", 0, <<>>, 0, r.err)
  /\ UNCHANGED <<impl, ixc, shist, logVars, threadVars>>

\* The positions a caller reads at: those Append returned, and the end.
Positions == {shist[k].pos : k \in 1 .. Len(shist)} \cup {store.size}

NextStore ==
  \/ \E p \in Values : StAppend(p)
  \/ \E pos \in Positions : StRead(pos)
  \/ \E off \in Positions, n \in {lenWidth, lenWidth + MaxValueLen} : StReadAt(off, n)
  \/ StClose

InitStore ==
  /\ LogInit({CHOOSE c \in Configs : c.MaxIndexBytes = 48})
  /\ StoreInit(StoreImpls)
  /\ IndexInit({"log/log.go"})
  /\ ThreadInit

SpecStore == InitStore /\ [][NextStore]_vars

\* --------------------------------------------------- an Index on its own
\* Index.Write(off, pos), off being the number of the entry.
IxWrite(pos) ==
  /\ ixc.done = <<>>
  /\ \E r \in {IndexWrite(ixc.ix, ixc.ix.size \div entWidth, pos)} :
       /\ r.err = "nil"
       /\ ixc' = [ixc EXCEPT !.ix = r.ix, !.f = r.ix.mmap]
  /\ UNCHANGED <<impl, store, file, sret, shist, logVars, threadVars>>

\* The next call Index.Close() makes.
IxCloseStep ==
  /\ Len(ixc.done) < Len(CloseSteps(ixc.impl))
  /\ ixc' = CloseStep(ixc, CloseSteps(ixc.impl)[Len(ixc.done) + 1])
  /\ UNCHANGED <<impl, store, file, sret, shist, logVars, threadVars>>

NextIndex ==
  \/ \E pos \in {0, lenWidth, 2 * lenWidth} : IxWrite(pos)
  \/ IxCloseStep

InitIndex ==
  /\ LogInit({CHOOSE c \in Configs : c.MaxIndexBytes = 48})
  /\ StoreInit({"log/store.go"})
  /\ IndexInit({"log/log.go", "log/index.go", "unnamed/part_007"})
  /\ ThreadInit

SpecIndex == InitIndex /\ [][NextIndex]_vars

\* ------------------------------------------- goroutines on one Log
\* A Lock that never waits.
CanLockAlways(m) == TRUE

\* sync.RWMutex: Lock waits for the writer and the readers to be gone,
CanLock(m) == m.writer = 0 /\ m.readers = {}

\* and RLock for the writer.
CanRLock(m) == m.writer = 0

\* The store file of segment id.
StoreFile(id) == FileOr(dir, StoreName(l.objs[id].baseOffset))

\* A goroutine calls Log.Append(record) with value v.
TAppendCall(t, v) ==
  /\ pc[t] = "idle"
  /\ nAppends < MaxAppends
  /\ nAppends' = nAppends + 1
  /\ pc' = [pc EXCEPT ![t] = "Append.Lock"]
  /\ loc' = [loc EXCEPT ![t] = [NoLocals EXCEPT !.v = v, !.seen = Len(hist)]]
  /\ UNCHANGED <<cfg, l, dir, ret, hist, truncated, closed, atClose, crashed, gone, reopened>>
  /\ UNCHANGED <<storeVars, mu, smu>>

\* l.mu.Lock().
TAppendLock(t) ==
  /\ pc[t] = "Append.Lock"
  /\ CanLock(mu)
  /\ mu' = [mu EXCEPT !.writer = t]
  /\ pc' = [pc EXCEPT ![t] = "Append.assign"]
  /\ UNCHANGED <<logVars, storeVars, loc, smu>>

\* segment.Append reads nextOffset of the active segment.
TAppendAssign(t) ==
  /\ pc[t] = "Append.assign"
  /\ loc' = [loc EXCEPT ![t].seg = l.activeSegment,
                        ![t].cur = SegmentAssign(l.objs[l.activeSegment])]
  /\ pc' = [pc EXCEPT ![t] = "Append.store"]
  /\ UNCHANGED <<logVars, storeVars, mu, smu>>

\* The rest of segment.Append (store.Append under the Store's mutex,
\* index.Write, nextOffset++), the IsMaxed test and rollover, and the
\* deferred Unlock.
TAppendStore(t) ==
  /\ pc[t] = "Append.store"
  /\ loc[t].seg \notin smu
  /\ \E r \in {LogAppendOn(l, dir, loc[t].seg, [value |-> loc[t].v, offset |-> 0], loc[t].cur)} :
        /\ l' = r.l
        /\ dir' = r.d
        /\ ret' = Ret("Append", 0, r.off, [value |-> loc[t].v, offset |-> r.off], r.err)
        /\ hist' = IF r.err = "nil"
                   THEN Append(hist, [off |-> r.off, val |-> loc[t].v, open |-> TRUE, cut |-> FALSE])
                   ELSE hist
  /\ mu' = [mu EXCEPT !.writer = 0]
  /\ pc' = [pc EXCEPT ![t] = "idle"]
  /\ loc' = [loc EXCEPT ![t] = NoLocals]
  /\ UNCHANGED <<cfg, truncated, closed, atClose, crashed, gone, nAppends, reopened>>
  /\ UNCHANGED <<storeVars, smu>>

\* A goroutine calls Log.Read(off): l.mu.RLock().
TReadLock(t, off) ==
  /\ pc[t] = "idle"
  /\ CanRLock(mu)
  /\ mu' = [mu EXCEPT !.readers = @ \cup {t}]
  /\ loc' = [loc EXCEPT ![t] = [NoLocals EXCEPT !.arg = off]]
  /\ pc' = [pc EXCEPT ![t] = "Read.find"]
  /\ UNCHANGED <<logVars, storeVars, smu>>

\* Log.Read's return with the deferred RUnlock.
TReadReturn(t, rec, err) ==
  /\ ret' = Ret("Read", loc[t].arg, loc[t].arg, rec, err)
  /\ mu' = [mu EXCEPT !.readers = @ \ {t}]
  /\ pc' = [pc EXCEPT ![t] = "idle"]
  /\ loc' = [loc EXCEPT ![t] = NoLocals]

\* Log.Read's scan of the list and segment.Read's index.Read.
TReadFind(t) ==
  /\ pc[t] = "Read.find"
  /\ \E i \in {FindSegment(l, loc[t].arg)} :
       IF i = 0
       THEN TReadReturn(t, NoRecord, OutOfRangeError)
       ELSE \E ir \in {IndexRead(l.objs[l.segments[i]].index,
                                  loc[t].arg - l.objs[l.segments[i]].baseOffset)} :
              IF ir.err # "nil"
              THEN TReadReturn(t, NoRecord, ir.err)
              ELSE /\ loc' = [loc EXCEPT ![t].seg = l.segments[i], ![t].pos = ir.pos]
                   /\ pc' = [pc EXCEPT ![t] = "Read.flush"]
                   /\ UNCHANGED <<ret, mu>>
  /\ UNCHANGED <<cfg, l, dir, hist, truncated, closed, atClose, crashed, gone, nAppends, reopened>>
  /\ UNCHANGED <<storeVars, smu>>

\* Store.Read, which takes no mutex: s.buf.Flush() writes the pending bytes.
TReadFlush(t) ==
  /\ pc[t] = "Read.flush"
  /\ \E fw \in {FlushWrite(l.objs[loc[t].seg].store, StoreFile(loc[t].seg))} :
       /\ l' = [l EXCEPT !.objs[loc[t].seg].store = fw.st]
       /\ dir' = PutStore(dir, l.objs[loc[t].seg], fw.st, fw.f)
       /\ IF fw.err # "nil"
          THEN TReadReturn(t, NoRecord, fw.err)
          ELSE /\ pc' = [pc EXCEPT ![t] = IF l.objs[loc[t].seg].store.buf = <<>>
                                          THEN "Read.at" ELSE "Read.flushed"]
               /\ UNCHANGED <<ret, mu, loc>>
  /\ UNCHANGED <<cfg, hist, truncated, closed, atClose, crashed, gone, nAppends, reopened>>
  /\ UNCHANGED <<storeVars, smu>>

\* Flush sets the writer's count of pending bytes to 0.
TReadFlushed(t) ==
  /\ pc[t] = "Read.flushed"
  /\ l' = [l EXCEPT !.objs[loc[t].seg].store = FlushReset(@)]
  /\ pc' = [pc EXCEPT ![t] = "Read.at"]
  /\ UNCHANGED <<cfg, dir, ret, hist, truncated, closed, atClose, crashed, gone, nAppends, reopened>>
  /\ UNCHANGED <<storeVars, loc, mu, smu>>

\* Store.Read's two File.ReadAt, proto.Unmarshal, and the return.
TReadAt(t) ==
  /\ pc[t] = "Read.at"
  /\ \E r \in {SegmentReadStored(l.objs[loc[t].seg], dir,
                   StoreReadFlushed([st |-> l.objs[loc[t].seg].store,
                                     f |-> StoreFile(loc[t].seg), err |-> "nil"],
                                    loc[t].pos))} :
       /\ l' = [l EXCEPT !.objs[loc[t].seg] = r.s]
       /\ dir' = r.d
       /\ TReadReturn(t, r.rec, r.err)
  /\ UNCHANGED <<cfg, hist, truncated, closed, atClose, crashed, gone, nAppends, reopened>>
  /\ UNCHANGED <<storeVars, smu>>

\* A goroutine reads through the io.Reader that Log.Reader() returned: the
\* originReader of segment id calls Store.ReadAt, which locks the Store's
\* mutex.
TReadAtLock(t, id) ==
  /\ pc[t] = "idle"
  /\ id \notin smu
  /\ smu' = smu \cup {id}
  /\ loc' = [loc EXCEPT ![t] = [NoLocals EXCEPT !.seg = id]]
  /\ pc' = [pc EXCEPT ![t] = "ReadAt.flush"]
  /\ UNCHANGED <<logVars, storeVars, mu>>

\* Store.ReadAt's return with the deferred Unlock: n bytes were read.
TReadAtReturn(t, n, err) ==
  /\ ret' = Ret("ReadAt", loc[t].seg, n, NoRecord, err)
  /\ smu' = smu \ {loc[t].seg}
  /\ pc' = [pc EXCEPT ![t] = "idle"]
  /\ loc' = [loc EXCEPT ![t] = NoLocals]

\* Store.ReadAt: s.buf.Flush() writes the pending bytes.
TReadAtFlush(t) ==
  /\ pc[t] = "ReadAt.flush"
  /\ \E fw \in {FlushWrite(l.objs[loc[t].seg].store, StoreFile(loc[t].seg))} :
       /\ l' = [l EXCEPT !.objs[loc[t].seg].store = fw.st]
       /\ dir' = PutStore(dir, l.objs[loc[t].seg], fw.st, fw.f)
       /\ IF fw.err # "nil"
          THEN TReadAtReturn(t, 0, fw.err)
          ELSE /\ pc' = [pc EXCEPT ![t] = IF l.objs[loc[t].seg].store.buf = <<>>
                                          THEN "ReadAt.at" ELSE "ReadAt.flushed"]
               /\ UNCHANGED <<ret, smu, loc>>
  /\ UNCHANGED <<cfg, hist, truncated, closed, atClose, crashed, gone, nAppends, reopened>>
  /\ UNCHANGED <<storeVars, mu>>

TReadAtFlushed(t) ==
  /\ pc[t] = "ReadAt.flushed"
  /\ l' = [l EXCEPT !.objs[loc[t].seg].store = FlushReset(@)]
  /\ pc' = [pc EXCEPT ![t] = "ReadAt.at"]
  /\ UNCHANGED <<cfg, dir, ret, hist, truncated, closed, atClose, crashed, gone, nAppends, reopened>>
  /\ UNCHANGED <<storeVars, loc, mu, smu>>

\* Store.ReadAt's File.ReadAt of n bytes at offset 0, and the return.
TReadAtRead(t, n) ==
  /\ pc[t] = "ReadAt.at"
  /\ \E r \in {FileReadSome(StoreFile(loc[t].seg), l.objs[loc[t].seg].store.closed, 0, n)} :
       TReadAtReturn(t, Len(r.b), r.err)
  /\ UNCHANGED <<cfg, l, dir, hist, truncated, closed, atClose, crashed, gone, nAppends, reopened>>
  /\ UNCHANGED <<storeVars, mu>>

\* A goroutine calls the exported Log.NewSegment itself, to roll over from an
\* active segment that holds records; the method takes no lock.
TNewSegment(t) ==
  /\ pc[t] = "idle"
  /\ l.objs[l.activeSegment].nextOffset > l.objs[l.activeSegment].baseOffset
  /\ \E r \in {LogNewSegment(l, dir, l.objs[l.activeSegment].nextOffset)} :
       /\ l' = r.l
       /\ dir' = r.d
  /\ ret' = Ret("NewSegment", l.objs[l.activeSegment].nextOffset, 0, NoRecord, "nil")
  /\ UNCHANGED <<cfg, hist, truncated, closed, atClose, crashed, gone, nAppends, reopened>>
  /\ UNCHANGED <<storeVars, threadVars>>

\* Goroutines that append and read at the same time.
NextThreads ==
  \/ \E t \in Threads, v \in Values : TAppendCall(t, v)
  \/ \E t \in Threads : TAppendLock(t)
  \/ \E t \in Threads : TAppendAssign(t)
  \/ \E t \in Threads : TAppendStore(t)
  \/ \E t \in Threads, off \in Offsets(cfg) : TReadLock(t, off)
  \/ \E t \in Threads : TReadFind(t)
  \/ \E t \in Threads : TReadFlush(t)
  \/ \E t \in Threads : TReadFlushed(t)
  \/ \E t \in Threads : TReadAt(t)
  \/ \E t \in Threads, i \in 1 .. Len(l.segments) : TReadAtLock(t, l.segments[i])
  \/ \E t \in Threads : TReadAtFlush(t)
  \/ \E t \in Threads : TReadAtFlushed(t)
  \/ \E t \in Threads : TReadAtRead(t, lenWidth)

\* They share a log that rolls over at every second record.
InitThreads ==
  /\ LogInit({CHOOSE c \in Configs : c.MaxIndexBytes = 2 * entWidth})
  /\ StoreInit({"log/store.go"})
  /\ IndexInit({"log/log.go"})
  /\ ThreadInit

SpecThreads == InitThreads /\ [][NextThreads]_vars

\* The same, with callers of Log.NewSegment.
NextCallers ==
  \/ NextThreads
  \/ \E t \in Threads : TNewSegment(t)

SpecCallers == InitThreads /\ [][NextCallers]_vars

\* ------------------------------------------------------------ claims
\* The i-th segment of the list.
Segment(i) == l.objs[l.segments[i]]

\* Some segment of the list has base_offset <= off < next_offset.
InRange(off) ==
  \E i \in 1 .. Len(l.segments) :
    Segment(i).baseOffset <= off /\ off < Segment(i).nextOffset

\* C1: on a fresh log (no NewLog on the directory since the first), whatever
\* reads, rollovers, truncations and closes come in between, the k-th
\* successful Append returned InitialOffset + k - 1.
C1_AppendOffsets ==
  ~reopened => \A k \in 1 .. Len(hist) : hist[k].off = cfg.InitialOffset + k - 1

\* Three appends from a non-zero InitialOffset, across a rollover, then a read.
C1_Witness ==
  /\ ~reopened /\ cfg.InitialOffset > 0
  /\ Len(hist) = 3 /\ hist[3].off = cfg.InitialOffset + 2
  /\ Len(l.segments) >= 2
  /\ ret.op = "Read" /\ ret.err = "nil"

\* C2: a Read on the open log of an offset a successful Append returned, the
\* segment that took the record not removed by a Truncate, returns the value
\* appended and that offset.
C2_ReadReturnsAppended ==
  (ret.op = "Read" /\ ~closed) =>
    \A k \in 1 .. Len(hist) :
      (hist[k].off = ret.arg /\ ~hist[k].cut) =>
        /\ ret.err = "nil"
        /\ ret.rec = [value |-> hist[k].val, offset |-> ret.arg]

\* C3: right after Close and NewLog on the same directory with the same
\* Config (at least one record appended, no Append made on the closed log, no
\* segment truncated), every offset assigned reads its value, HighestOffset()
\* is what it was at the Close, and the next Append returns that + 1.
C3_ReopenKeeps ==
  (/\ ret.op = "NewLog" /\ reopened /\ atClose.err = "nil" /\ ~truncated
   /\ hist # <<>> /\ \A k \in 1 .. Len(hist) : hist[k].open) =>
    /\ \A k \in 1 .. Len(hist) :
         /\ LogRead(l, dir, hist[k].off).err = "nil"
         /\ LogRead(l, dir, hist[k].off).rec = [value |-> hist[k].val, offset |-> hist[k].off]
    /\ HighestOffset(l).err = "nil" /\ HighestOffset(l).off = atClose.off
    /\ \A v \in Values :
         /\ LogAppend(l, dir, [value |-> v, offset |-> 0]).err = "nil"
         /\ LogAppend(l, dir, [value |-> v, offset |-> 0]).off = atClose.off + 1

\* C4: under a Config with MaxIndexBytes >= 12, no Append on the open log
\* returns the index's out-of-space error (io.EOF).
C4_NoIndexFull ==
  (ret.op = "Append" /\ ~closed /\ l.Config.MaxIndexBytes >= entWidth) => ret.err # "EOF"

\* C5: a successful Append stores the record in the segment that was active,
\* under the offset it returns; if that leaves the segment maxed (store size
\* >= MaxStoreBytes or index size >= MaxIndexBytes) a new segment is last in
\* the list and active, its base_offset the returned offset + 1 and above
\* every offset of the previous active segment; if not, the active segment
\* stays.
C5_RolloverAfterAppend ==
  [][(ret'.op = "Append" /\ ret'.err = "nil" /\ nAppends' = nAppends + 1) =>
       /\ l'.objs[l.activeSegment].baseOffset <= ret'.off
       /\ l'.objs[l.activeSegment].nextOffset = ret'.off + 1
       /\ ~l'.objs[l.activeSegment].store.closed =>
            SegmentRead(l'.objs[l.activeSegment], dir', ret'.off).rec = ret'.rec
       /\ IF \/ l'.objs[l.activeSegment].store.size >= l.Config.MaxStoreBytes
             \/ l'.objs[l.activeSegment].index.size >= l.Config.MaxIndexBytes
          THEN /\ l'.activeSegment # l.activeSegment
               /\ l'.segments[Len(l'.segments)] = l'.activeSegment
               /\ l'.objs[l'.activeSegment].baseOffset = ret'.off + 1
               /\ l'.objs[l'.activeSegment].baseOffset > l'.objs[l.activeSegment].nextOffset - 1
          ELSE /\ l'.activeSegment = l.activeSegment
               /\ l'.segments = l.segments]_vars

\* The Append that filled a segment: its record is in the segment before the
\* last, and the last, empty, starts right after the offset returned.
C5_Witness ==
  /\ ret.op = "Append" /\ ret.err = "nil" /\ ~closed /\ ~truncated
  /\ Len(l.segments) >= 2
  /\ Segment(Len(l.segments) - 1).nextOffset = ret.off + 1
  /\ Segment(Len(l.segments)).baseOffset = ret.off + 1
  /\ Segment(Len(l.segments)).nextOffset = ret.off + 1
  /\ l.activeSegment = l.segments[Len(l.segments)]

\* C6: while the log is open its segment list is sorted by base_offset and
\* each segment's base_offset is the next_offset of the one before it.
C6_Contiguous ==
  ~closed =>
    \A i \in 1 .. Len(l.segments) - 1 :
      /\ Segment(i).baseOffset < Segment(i + 1).baseOffset
      /\ Segment(i).nextOffset = Segment(i + 1).baseOffset

\* C7: Read(o) returns the out-of-range error exactly when no segment of the
\* list has base_offset <= o < next_offset; and on a fresh log after N
\* successful appends and nothing but reads besides, Read(I) .. Read(I+N-1)
\* succeed and Read(I+N) fails with it (N = 0: Read(I) fails).
C7_OutOfRange ==
  /\ ret.op = "Read" => (ret.err = OutOfRangeError <=> ~InRange(ret.arg))
  /\ (ret.op = "Read" /\ ~truncated /\ ~closed /\ ~reopened) =>
       /\ (cfg.InitialOffset <= ret.arg /\ ret.arg < cfg.InitialOffset + Len(hist))
            => ret.err = "nil"
       /\ ret.arg = cfg.InitialOffset + Len(hist) => ret.err = OutOfRangeError

\* Read(I+N) failed after N = 2 appends.
C7_Witness ==
  /\ ret.op = "Read" /\ ~truncated /\ ~closed /\ ~reopened
  /\ Len(hist) = 2 /\ ret.arg = cfg.InitialOffset + 2
  /\ ret.err = OutOfRangeError

\* C8: when no segment holds the offset Consume asks Log.Read for, the error
\* Read returns passes Consume's type test for ErrOffsetOutOfRange, and
\* Consume answers with that error's gRPC status.
C8_ConsumeMatchesType ==
  (ret.op = "Consume" /\ ~InRange(ret.arg)) =>
    ret.err = "grpc status 404: offset fuera de rango"

\* C9: a Truncate(L) that returns nil on the open log leaves in the list
\* exactly the segments whose next_offset > L + 1, in their order and
\* unchanged; then no offset of a removed segment reads, and every offset of
\* a kept segment reads what it read before.
C9_TruncateExact ==
  [][(ret'.op = "Truncate" /\ ret'.err = "nil" /\ ~closed) =>
       /\ l'.segments = SelectSeq(l.segments, LAMBDA id : l.objs[id].nextOffset > ret'.arg + 1)
       /\ \A i \in 1 .. Len(l'.segments) : l'.objs[l'.segments[i]] = l.objs[l'.segments[i]]
       /\ \A i \in 1 .. Len(l.segments) :
            \A off \in Segment(i).baseOffset .. Segment(i).nextOffset - 1 :
              IF Segment(i).nextOffset <= ret'.arg + 1
              THEN LogRead(l', dir', off).err # "nil"
              ELSE /\ LogRead(l', dir', off).err = LogRead(l, dir, off).err
                   /\ LogRead(l', dir', off).rec = LogRead(l, dir, off).rec]_vars

\* A Truncate took the first segment of a log of three records and left the
\* rest; a record of the rest was read after it.
C9_Witness ==
  /\ ret.op = "Read" /\ ret.err = "nil" /\ ~closed /\ ~reopened
  /\ Len(hist) = 3 /\ hist[1].cut /\ ~hist[3].cut
  /\ ret.arg = hist[3].off /\ ret.rec.value = hist[3].val
  /\ Len(l.segments) >= 1

\* The log's records lie in at least two segments of the list and the last
\* of them is above offset L.
SpansBeyond(L) ==
  /\ \E i, j \in 1 .. Len(l.segments) :
       /\ i # j
       /\ Segment(i).nextOffset > Segment(i).baseOffset
       /\ Segment(j).nextOffset > Segment(j).baseOffset
  /\ \E i \in 1 .. Len(l.segments) : Segment(i).nextOffset - 1 > L

\* C10, as claimed: after a Truncate(L) on an open log whose records span
\* several segments and reach beyond L, LowestOffset() >= L + 1.
C10_LowestAboveL ==
  [][(ret'.op = "Truncate" /\ ret'.err = "nil" /\ ~closed /\ SpansBeyond(ret'.arg)) =>
       (LowestOffset(l').err = "nil" /\ LowestOffset(l').off >= ret'.arg + 1)]_vars

\* C10, amended: after such a Truncate(L), LowestOffset() >= L + 1 unless a
\* segment held both L and L + 1; that segment is kept whole and
\* LowestOffset() is its base_offset, which is <= L.
C10_StraddlerKept ==
  [][(ret'.op = "Truncate" /\ ret'.err = "nil" /\ ~closed /\ SpansBeyond(ret'.arg)) =>
       /\ LowestOffset(l').err = "nil"
       /\ \A i \in 1 .. Len(l.segments) :
            (Segment(i).baseOffset <= ret'.arg /\ ret'.arg + 1 < Segment(i).nextOffset)
              => /\ l'.segments[1] = l.segments[i]
                 /\ LowestOffset(l').off = Segment(i).baseOffset
       /\ (~\E i \in 1 .. Len(l.segments) :
              Segment(i).baseOffset <= ret'.arg /\ ret'.arg + 1 < Segment(i).nextOffset)
            => LowestOffset(l').off >= ret'.arg + 1]_vars

\* A Truncate(L) removed a segment and kept the one holding L and L + 1.
C10_Witness ==
  /\ ret.op = "Truncate" /\ ret.err = "nil" /\ ~closed /\ ~reopened
  /\ \E k \in 1 .. Len(hist) : hist[k].cut
  /\ l.segments # <<>>
  /\ Segment(1).baseOffset <= ret.arg /\ ret.arg + 1 < Segment(1).nextOffset


\* C11: after Reset the log has a single empty active segment at
\* InitialOffset, no offset assigned before is readable, and the next Append
\* returns InitialOffset.
C11_ResetReopens ==
  ret.op = "Reset" =>
    /\ ret.err = "nil"
    /\ Len(l.segments) = 1
    /\ l.activeSegment = l.segments[1]
    /\ Segment(1).baseOffset = cfg.InitialOffset
    /\ Segment(1).nextOffset = cfg.InitialOffset
    /\ \A k \in 1 .. Len(hist) : LogRead(l, dir, hist[k].off).err # "nil"
    /\ \A v \in Values :
         /\ LogAppendIn(l, dir, gone, [value |-> v, offset |-> 0]).err = "nil"
         /\ LogAppendIn(l, dir, gone, [value |-> v, offset |-> 0]).off = cfg.InitialOffset

\* C12: an Append or Read routed to a closed segment fails: an Append whose
\* active segment has a closed store or index returns an error, and so does a
\* Read of an offset held by a closed segment of the list.
C12_ClosedRefuses ==
  [][/\ (/\ ret'.op = "Append" /\ nAppends' = nAppends + 1
         /\ (l.objs[l.activeSegment].store.closed \/ l.objs[l.activeSegment].index.closed))
        => ret'.err # "nil"
     /\ (/\ ret'.op = "Read" /\ FindSegment(l, ret'.arg) # 0
         /\ Segment(FindSegment(l, ret'.arg)).store.closed)
        => ret'.err # "nil"]_vars

\* C13: HighestOffset() is the last segment's next_offset - 1, or 0 when that
\* next_offset is 0; with a record in some segment of the list,
\* HighestOffset() + 1 is the last segment's next_offset.
C13_HighestOffset ==
  (ret.op = "HighestOffset" /\ l.segments # <<>>) =>
    /\ ret.err = "nil"
    /\ ret.off = IF Segment(Len(l.segments)).nextOffset = 0 THEN 0
                 ELSE Segment(Len(l.segments)).nextOffset - 1
    /\ (\E i \in 1 .. Len(l.segments) : Segment(i).nextOffset > Segment(i).baseOffset)
         => ret.off + 1 = Segment(Len(l.segments)).nextOffset

C13_Witness ==
  /\ ret.op = "HighestOffset" /\ ret.err = "nil"
  /\ Len(l.segments) >= 2
  /\ hist # <<>>
  /\ ret.off = hist[Len(hist)].off
  /\ ret.off + 1 = Segment(Len(l.segments)).nextOffset

\* C14: on an open log LowestOffset() returns the base_offset of the first
\* segment of the list.
C14_LowestIsFirstBase ==
  (~closed /\ ~crashed) =>
    /\ LowestOffset(l).err = "nil"
    /\ LowestOffset(l).off = Segment(1).baseOffset

\* The position in l's list of the segment based at base, 0 when none is.
SegmentAt(base) ==
  First({j \in 1 .. Len(l.segments) : Segment(j).baseOffset = base})

\* C15: a Close that returns nil leaves each segment's index file at exactly
\* 12 bytes for each of its index entries, the entries themselves and none of
\* the padding (with no Append made on a closed log, the entries are the
\* next_offset - base_offset records of the segment); the NewLog after that
\* Close sets the index size of each segment that was closed to that file
\* length again.
C15_IndexFileExact ==
  [][/\ (ret'.op = "Close" /\ ret'.err = "nil") =>
          \A i \in 1 .. Len(l.segments) :
            /\ dir'[IndexName(Segment(i).baseOffset)]
                 = SubSeq(Segment(i).index.mmap, 1,
                          entWidth * (Segment(i).index.size \div entWidth))
            /\ (\A k \in 1 .. Len(hist) : hist[k].open) =>
                 Len(dir'[IndexName(Segment(i).baseOffset)])
                   = entWidth * (Segment(i).nextOffset - Segment(i).baseOffset)
     /\ (ret.op = "Close" /\ ret.err = "nil" /\ ret'.op = "NewLog") =>
          \A i \in 1 .. Len(l'.segments) :
            SegmentAt(l'.objs[l'.segments[i]].baseOffset) # 0 =>
              /\ l'.objs[l'.segments[i]].index.size
                   = Segment(SegmentAt(l'.objs[l'.segments[i]].baseOffset)).index.size
              /\ l'.objs[l'.segments[i]].index.size
                   = Len(dir[IndexName(l'.objs[l'.segments[i]].baseOffset)])]_vars

C15_Witness ==
  /\ ret.op = "NewLog" /\ reopened
  /\ \E i \in 1 .. Len(l.segments) :
       /\ Segment(i).index.size = entWidth * (Segment(i).nextOffset - Segment(i).baseOffset)
       /\ Segment(i).index.size >= entWidth
       /\ Segment(i).index.size < Len(Segment(i).index.mmap)
  /\ \A k \in 1 .. Len(hist) : hist[k].open


\* C16: Store.Read of store.go at the position an Append returned gives back
\* that Append's payload, whatever was appended before or after it and whether
\* or not the payload had left the write buffer (the file being open).
C16_StoreRoundTrip ==
  (impl = "log/store.go" /\ sret.op = "Read" /\ ~store.closed) =>
    \A k \in 1 .. Len(shist) :
      shist[k].pos = sret.arg =>
        /\ sret.err = "nil"
        /\ sret.out = shist[k].p

C16_Witness ==
  /\ impl = "log/store.go" /\ sret.op = "Read" /\ sret.err = "nil"
  /\ Len(shist) = 3
  /\ shist[1].p = <<>> /\ shist[2].p # <<>>
  /\ sret.arg = shist[2].pos
  /\ sret.out = shist[2].p

\* C18: on an open Store of either implementation a Read or ReadAt at the
\* position of a record appended before sees the record: Read returns its
\* payload, ReadAt its length prefix.
C18_ReadsSeeAppends ==
  (sret.op \in {"Read", "ReadAt"} /\ ~store.closed) =>
    \A k \in 1 .. Len(shist) :
      shist[k].pos = sret.arg =>
        IF sret.op = "Read"
        THEN sret.err = "nil" /\ sret.out = shist[k].p
        ELSE /\ Len(sret.out) >= lenWidth
             /\ SubSeq(sret.out, 1, lenWidth) = PutUint(Len(shist[k].p), lenWidth)


\* C17: an Append that returns an offset returns one that no Append returned
\* before, and one above the offset of every Append that had returned when
\* this one was called.
C17_AppendsOrdered ==
  [][\A t \in Threads :
       (pc[t] = "Append.store" /\ pc'[t] = "idle" /\ ret'.err = "nil") =>
         /\ \A k \in 1 .. Len(hist) : hist[k].off # ret'.off
         /\ \A k \in 1 .. loc[t].seen : hist[k].off < ret'.off]_vars

C17_Witness ==
  /\ Len(hist) = 2 /\ ret.op = "Append" /\ ret.err = "nil"
  /\ hist[1].off < hist[2].off
  /\ \E t \in Threads : pc[t] = "Append.Lock" /\ loc[t].seen = 0

\* Goroutine t is inside a Flush of the Store's writer: it has written the
\* pending bytes and not yet reset their count.
InFlush(t) == pc[t] \in {"Read.flushed", "ReadAt.flushed"}

\* C19: no two goroutines flush the write buffer of the same Store at the
\* same time.
C19_StoreSerialized ==
  \A t1, t2 \in Threads :
    (t1 # t2 /\ InFlush(t1) /\ InFlush(t2)) => loc[t1].seg # loc[t2].seg

\* C20: the segment list and the active segment change only while the
\* Log's lock is held exclusively: a writer holds it and no reader does.
C20_ListChangesLocked ==
  [][(l'.segments # l.segments \/ l'.activeSegment # l.activeSegment) =>
       (mu.writer # 0 /\ mu.readers = {})]_vars

\* Index.Write(off, pos) on ix: out of space, size and mapping untouched, when
\* size + 12 is beyond the mapping; otherwise the entry is in bytes
\* [size, size + 12), every other byte is as before and size is 12 larger.
WritesEntry(ix, off, pos) ==
  \E r \in {IndexWrite(ix, off, pos)} :
    IF ix.size + entWidth > Len(ix.mmap)
    THEN r.err = "EOF" /\ r.ix = ix
    ELSE /\ r.err = "nil"
         /\ r.ix.size = ix.size + entWidth
         /\ Len(r.ix.mmap) = Len(ix.mmap)
         /\ Uint(SubSeq(r.ix.mmap, ix.size + 1, ix.size + offWidth)) = off
         /\ Uint(SubSeq(r.ix.mmap, ix.size + offWidth + 1, ix.size + entWidth)) = pos
         /\ \A i \in 1 .. Len(ix.mmap) :
              (i <= ix.size \/ i > ix.size + entWidth) => r.ix.mmap[i] = ix.mmap[i]

\* C21: on every open index the log can hold, Index.Write fails with
\* out-of-space exactly when size + 12 > length of the mapping and then
\* changes nothing; otherwise it stores the entry at [size, size + 12) and
\* adds 12 to size.
C21_IndexWrite ==
  \A id \in 1 .. Len(l.objs) :
    ~l.objs[id].index.closed =>
      \A off \in {0, 1, 258}, pos \in {0, 8, 65537} : WritesEntry(l.objs[id].index, off, pos)

\* Index.Write took two entries and refused the third Append of a log never
\* closed: the active segment's index has no room for another entry.
C21_Witness ==
  /\ ret.op = "Append" /\ ret.err = "EOF"
  /\ l.activeSegment # 0
  /\ ~l.objs[l.activeSegment].index.closed
  /\ l.objs[l.activeSegment].index.size > 0
  /\ l.objs[l.activeSegment].index.size + entWidth > Len(l.objs[l.activeSegment].index.mmap)
  /\ ~closed /\ ~reopened /\ Len(hist) = 2

\* Entry numbers Index.Read is asked for: around 0, and the same plus and
\* minus 2^32.
EntryNumbers ==
  {Wide(k) : k \in -2 .. 3} \cup {[hi |-> h, lo |-> k] : h \in {65536, -65536}, k \in 0 .. 1}

\* Entry k of ix, as Index.Read returns it.
EntryOf(ix, k) ==
  [out |-> Uint(SubSeq(ix.mmap, k * entWidth + 1, k * entWidth + offWidth)),
   pos |-> Uint(SubSeq(ix.mmap, k * entWidth + offWidth + 1, (k + 1) * entWidth)),
   err |-> "nil"]

\* n >= 0 and 12 * n + 12 <= size.
EntryWithin(ix, n) ==
  n.hi >= 0 /\ ~WideLess(Wide(ix.size), WideScale(n, entWidth, entWidth))

\* Index.Read(n) on ix does what C22 says.
ReadsEntry(ix, n) ==
  \E r \in {IndexReadWide(ix, n)} :
    IF ix.size = 0 THEN r.err = "EOF"
    ELSE IF n = Wide(-1) THEN r = EntryOf(ix, (ix.size \div entWidth) - 1)
    ELSE /\ (r.err = "nil") <=> EntryWithin(ix, n)
         /\ r.err = "nil" => r = EntryOf(ix, n.hi * 65536 + n.lo)

\* C22: on every open index the log can hold, Index.Read(n) fails when size
\* is 0, returns the last entry for n = -1, and for any other n succeeds
\* exactly when n >= 0 and 12 * n + 12 <= size, returning entry n.
C22_IndexRead ==
  \A id \in 1 .. Len(l.objs) :
    ~l.objs[id].index.closed => \A n \in EntryNumbers : ReadsEntry(l.objs[id].index, n)

\* Offsets segment s is read at: from one below its base to one past its
\* next offset, and its base plus 2^32.
ReadOffsets(s) ==
  {Wide(k) : k \in s.baseOffset - 1 .. s.nextOffset + 1}
    \cup {WideScale([hi |-> 65536, lo |-> 0], 1, s.baseOffset)}

\* base_offset <= off < next_offset.
WithinSegment(s, off) ==
  ~WideLess(off, Wide(s.baseOffset)) /\ WideLess(off, Wide(s.nextOffset))

\* C23: segment.Read(offset) on an open segment returns a record only when
\* base_offset <= offset < next_offset, and fails for every other offset.
C23_SegmentReadRange ==
  \A id \in 1 .. Len(l.objs) :
    (~l.objs[id].index.closed /\ ~l.objs[id].store.closed) =>
      \A off \in ReadOffsets(l.objs[id]) :
        SegmentReadWide(l.objs[id], dir, off).err = "nil" => WithinSegment(l.objs[id], off)

\* C24: segment.Append on an open segment for which IsMaxed() is true fails
\* and changes neither the store, the index nor next_offset.
C24_FullRefuses ==
  \A id \in 1 .. Len(l.objs) :
    (~l.objs[id].index.closed /\ ~l.objs[id].store.closed /\ IsMaxed(l.objs[id], l.Config)) =>
      \A v \in Values :
        \E r \in {SegmentAppend(l.objs[id], dir, [value |-> v, offset |-> 0])} :
          /\ r.err # "nil"
          /\ r.s.nextOffset = l.objs[id].nextOffset
          /\ r.s.index = l.objs[id].index
          /\ r.s.store.size = l.objs[id].store.size

\* The segment NewSegment opens has next_offset = base_offset when its index
\* is empty and base_offset + (relative offset of the last entry) + 1
\* otherwise.
OpensAfterLast(n) ==
  IF n.index.size = 0 THEN n.nextOffset = n.baseOffset
  ELSE n.nextOffset
         = n.baseOffset + EntryOf(n.index, (n.index.size \div entWidth) - 1).out + 1

\* Segment s, closed without error and opened again, has the next_offset it
\* had.
ReopensAt(s, c) ==
  c.err = "nil" =>
    \E n \in {NewSegment(c.d, s.baseOffset, l.Config).s} :
      OpensAfterLast(n) /\ n.nextOffset = s.nextOffset

\* C25: every segment of the list is as NewSegment opens it or as its
\* appends left it, and an open one that is closed and opened again gets
\* next_offset from the last index entry and so keeps the next_offset it had.
C25_ReopenNextOffset ==
  \A i \in 1 .. Len(l.segments) :
    (~Segment(i).index.closed /\ ~Segment(i).store.closed) =>
      ReopensAt(Segment(i), SegmentClose(Segment(i), dir))

\* A log with two records in a segment was closed and opened again, and the
\* reopened segment continues after the second.
C25_Witness ==
  /\ reopened /\ ~closed /\ ret.op = "NewLog"
  /\ Len(hist) = 2 /\ \A k \in 1 .. 2 : hist[k].open
  /\ \E i \in 1 .. Len(l.segments) :
       /\ Segment(i).index.size = 2 * entWidth
       /\ Segment(i).nextOffset = hist[2].off + 1
       /\ Segment(i).baseOffset = hist[1].off

\* Segment s has one index entry per offset it assigned, entry k storing
\* relative offset k.
EntriesMatch(s) ==
  /\ s.index.size = (s.nextOffset - s.baseOffset) * entWidth
  /\ \A k \in 0 .. (s.index.size \div entWidth) - 1 : EntryOf(s.index, k).out = k

\* C26: in every open segment of an open log the number of index entries
\* equals next_offset - base_offset and the k-th entry stores relative
\* offset k.
C26_IndexMatchesOffsets ==
  ~closed =>
    \A i \in 1 .. Len(l.segments) :
      (~Segment(i).index.closed /\ ~Segment(i).store.closed) => EntriesMatch(Segment(i))

\* The base offsets of log lg's segment list, in its order.
Bases(lg) == [i \in 1 .. Len(lg.segments) |-> lg.objs[lg.segments[i]].baseOffset]

\* The numeric file stems of directory d.
Stems(d) == {n[1] : n \in {m \in DOMAIN d : m[1] >= 0}}

\* Log lg has one segment per numeric stem of d, in ascending order of base
\* offset, the last one active.
OpensStems(lg, d) ==
  /\ Len(lg.segments) = Cardinality(Stems(d))
  /\ \A i \in 1 .. Len(lg.segments) : Bases(lg)[i] \in Stems(d)
  /\ \A i \in 1 .. Len(lg.segments) - 1 : Bases(lg)[i] < Bases(lg)[i + 1]
  /\ lg.activeSegment = lg.segments[Len(lg.segments)]

\* C27: NewLog on the directory a closed log left, with or without a file
\* whose stem is no number beside the segment files, opens one segment per
\* numeric stem in ascending order and makes the last active.
C27_OneSegmentPerStem ==
  (closed /\ ~gone /\ Stems(dir) # {}) =>
    /\ OpensStems(NewLog(dir, cfg).l, dir)
    /\ OpensStems(NewLog(WriteFile(dir, <<-1, "txt">>, <<>>), cfg).l, dir)

\* C28: in every state of an open log the segment list is non-empty and the
\* active segment is its last element.
C28_ActiveIsLast ==
  (~closed /\ ~crashed) =>
    /\ l.segments # <<>>
    /\ l.activeSegment = l.segments[Len(l.segments)]

\* C29: when the close of the index of a segment with a record pending in
\* its store fails, segment.Close still closes the store, and returns the
\* index's error.
C29_ClosesBoth ==
  \A i \in 1 .. Len(l.segments) :
    (~Segment(i).index.closed /\ ~Segment(i).store.closed /\ Segment(i).store.buf # <<>>) =>
      \E r \in {SegmentCloseIndex(Segment(i), dir,
                   IndexCloseSyncFails(Segment(i).index,
                                       FileOr(dir, IndexName(Segment(i).baseOffset))))} :
        r.err = "EIO" /\ r.s.store.closed

\* C30: an Index.Close that has closed the file made its calls in this
\* order: sync the mapping, sync the file, unmap, truncate the file, close it.
C30_CloseOrder ==
  ixc.ix.closed =>
    ixc.done = <<"mmap.Sync", "file.Sync", "mmap.UnsafeUnmap", "file.Truncate", "file.Close">>

\* The bytes of the stores of segments i, i + 1, ... of the list: each one's
\* file, then what its write buffer holds.
RECURSIVE StoreBytes(_)
StoreBytes(i) ==
  IF i > Len(l.segments) THEN <<>>
  ELSE FileOr(dir, StoreName(Segment(i).baseOffset)) \o Segment(i).store.buf \o StoreBytes(i + 1)

\* The frames of the records of Appends k, k + 1, ... in the order of their
\* offsets.
RECURSIVE Frames(_)
Frames(k) ==
  IF k > Len(hist) THEN <<>>
  ELSE Frame(Marshal([value |-> hist[k].val, offset |-> hist[k].off])) \o Frames(k + 1)

\* C31: on an open log the stream of Log.Reader() is the stores of the list's
\* segments one after another, each from byte 0 to its end with the bytes
\* still in its write buffer; while every Append has succeeded and nothing was
\* truncated or reopened these are the frames of the log's records in offset
\* order.
C31_ReaderStream ==
  (~closed /\ ~crashed /\ \A i \in 1 .. Len(l.segments) : ~Segment(i).store.closed) =>
    /\ LogReader(l, dir, 1) = [b |-> StoreBytes(1), err |-> "nil"]
    /\ (~reopened /\ ~truncated /\ nAppends = Len(hist) /\ \A k \in 1 .. Len(hist) : hist[k].open)
         => LogReader(l, dir, 1).b = Frames(1)

\* Three records in two segments, the last one still in its store's write
\* buffer, and the reader's stream holds all three.
C31_Witness ==
  /\ ~closed /\ ~crashed /\ ~reopened /\ ~truncated
  /\ Len(hist) = 3 /\ nAppends = 3
  /\ Len(l.segments) >= 2
  /\ \E i \in 1 .. Len(l.segments) : ~Segment(i).store.closed /\ Segment(i).store.buf # <<>>
  /\ LogReader(l, dir, 1).b = Frames(1)
  /\ ret.op = "Append"

RECURSIVE AppendsMore(_, _, _)
AppendsNext(r, m) == AppendsMore(r.l, r.d, m)

AppendsMore(lg, d, m) ==
  IF m = 0 THEN lg
  ELSE AppendsNext(LogAppend(lg, d, [value |-> <<>>, offset |-> 0]), m - 1)

\* The base offsets InitialOffset, InitialOffset + k, ... of a log that holds
\* n records in segments of k.
BasesEvery(k, n) == [i \in 1 .. (n \div k) + 1 |-> cfg.InitialOffset + (i - 1) * k]

\* C33: on a fresh log with MaxIndexBytes = 12 * k whose store threshold is
\* not reached, every segment takes exactly k records before the rollover:
\* after N Appends, up to two more than the calls made so far, the base
\* offsets are InitialOffset, InitialOffset + k, ... up to the segment opened
\* by the last rollover (k = 2 and 5 Appends from 0: 0, 2, 4).
C33_SegmentsOfK ==
  (/\ ~closed /\ ~crashed /\ ~reopened /\ ~truncated /\ ~gone
   /\ nAppends = Len(hist)
   /\ cfg.MaxIndexBytes \in {entWidth, 2 * entWidth}) =>
    \A m \in 0 .. 2 :
      Bases(AppendsMore(l, dir, m)) = BasesEvery(cfg.MaxIndexBytes \div entWidth, Len(hist) + m)

\* Scenario S3: two entries per segment, three Appends made and two more: the
\* base offsets are 0, 2, 4.
C33_Witness ==
  /\ ~closed /\ ~crashed /\ ~reopened /\ ~truncated /\ ~gone
  /\ cfg.MaxIndexBytes = 2 * entWidth /\ cfg.InitialOffset = 0
  /\ Len(hist) = 3 /\ nAppends = 3 /\ ret.op = "Append"
  /\ Bases(l) = <<0, 2>>
  /\ Bases(AppendsMore(l, dir, 2)) = <<0, 2, 4>>

\* C34: a Log.Append on an open log that returns an error leaves the log as
\* it was: the same segment list, and in every segment the same store size,
\* index and next_offset.
C34_FailedAppendNoChange ==
  [][(ret'.op = "Append" /\ ret'.err # "nil" /\ ~closed /\ ~crashed /\ ~crashed' /\ ~truncated) =>
       /\ l'.segments = l.segments
       /\ Len(l'.objs) = Len(l.objs)
       /\ \A id \in 1 .. Len(l.objs) :
            /\ l'.objs[id].store.size = l.objs[id].store.size
            /\ l'.objs[id].index = l.objs[id].index
            /\ l'.objs[id].nextOffset = l.objs[id].nextOffset]_vars

\* C35: after a successful Log.Append on an open log, every open segment
\* whose index has no room for another entry reports IsMaxed, so the active
\* segment can take the next index write.
C35_NoRoomIsMaxed ==
  (~closed /\ ~crashed /\ ret.op = "Append" /\ ret.err = "nil") =>
    /\ IndexHasRoom(l.objs[l.activeSegment].index)
    /\ \A id \in 1 .. Len(l.objs) :
         (~l.objs[id].index.closed /\ ~IndexHasRoom(l.objs[id].index)) =>
           IsMaxed(l.objs[id], l.Config)

\* C36: every successful Log.Append returns an offset strictly greater than
\* the offset returned by every earlier successful Append on the directory.
C36_OffsetsNeverReused ==
  \A i \in 1 .. Len(hist) : \A j \in 1 .. Len(hist) :
    i < j => hist[i].off < hist[j].off

\* The frame of the record Log.Read returns for offset off, nothing when the
\* Read fails.
ReadFrame(r) ==
  IF r.err = "nil" THEN Frame(Marshal(r.rec)) ELSE <<>>

\* The frames of the records readable through Log.Read at the offsets
\* off, off + 1, ..., last, in that order.
RECURSIVE ReadFrames(_, _)
ReadFrames(off, last) ==
  IF off > last THEN <<>>
  ELSE ReadFrame(LogRead(l, dir, off)) \o ReadFrames(off + 1, last)

\* C37: on an open log that was neither truncated nor reopened, the stream of
\* Log.Reader() is the frames of the records readable through Log.Read, each
\* once and in offset order: no frame without an index entry, none twice.
C37_ReaderIsReadable ==
  (~closed /\ ~crashed /\ ~reopened /\ ~truncated /\ \A k \in 1 .. Len(hist) : hist[k].open) =>
    LogReader(l, dir, 1) =
      [b |-> ReadFrames(cfg.InitialOffset, cfg.InitialOffset + MaxAppends), err |-> "nil"]

\* C38: a ConsumeStream that has returned did so because the client's context
\* was done or on an error other than out-of-range, having sent the records
\* at the offsets from its start one by one; at an offset not yet in the log
\* it stays open.
C38_StreamWaits ==
  \A t \in Threads :
    (pc[t] = "ConsumeStream.returned" /\ ret.op = "ConsumeStream") =>
      /\ ret.err # OutOfRangeError
      /\ loc[t].cur = loc[t].arg + loc[t].seen

\* A segment of the list holds a record.
HoldsRecord ==
  \E i \in 1 .. Len(l.segments) : Segment(i).nextOffset > Segment(i).baseOffset

\* C39: on an open log one of whose segments holds a record,
\* LowestOffset() <= HighestOffset() and Log.Read succeeds at every offset
\* from the one to the other.
C39_RangeReadable ==
  (~closed /\ ~crashed /\ HoldsRecord) =>
    /\ LowestOffset(l).err = "nil" /\ HighestOffset(l).err = "nil"
    /\ LowestOffset(l).off <= HighestOffset(l).off
    /\ \A o \in LowestOffset(l).off .. HighestOffset(l).off : LogRead(l, dir, o).err = "nil"

\* Log.Truncate(lowest) on lg, whose first two segments both go, when the
\* first Remove returned r and the index's Sync fails in the second.
TruncateSecondFails(lg, lowest, r) ==
  TruncateRemoved([lg EXCEPT !.objs[lg.segments[1]] = r.s], lg.segments[2],
                  SegmentRemoveClosed(lg.objs[lg.segments[2]],
                    SegmentCloseIndex(lg.objs[lg.segments[2]], r.d,
                      IndexCloseSyncFails(lg.objs[lg.segments[2]].index,
                        FileOr(r.d, IndexName(lg.objs[lg.segments[2]].baseOffset))))),
                  lowest, 2, <<>>)

\* C40: after a Log.Truncate that returned an error, here from the Remove of
\* the second segment, no segment of the list is one whose files that call
\* deleted.
C40_FailedTruncateList ==
  (~closed /\ ~crashed /\ Len(l.segments) >= 2) =>
    \A lowest \in Offsets(cfg) :
      (Removes(Segment(1), lowest) /\ Removes(Segment(2), lowest)) =>
        \E r \in {TruncateSecondFails(l, lowest, SegmentRemove(Segment(1), dir))} :
          r.err # "nil" =>
            \A i \in 1 .. Len(r.l.segments) :
              StoreName(r.l.objs[r.l.segments[i]].baseOffset) \in DOMAIN r.d

====
